---- MODULE Spec2Model ----
(***************************************************************************)
(* A model of ilya: the JSON-RPC stdio proxy (startProxy, createLineBuffer, *)
(* formatMessage, formatResult, Logger.write) and the log tail engine       *)
(* (findLatestLog, watch, streamFile).                                      *)
(*                                                                          *)
(* Text is a sequence of atoms.  An atom is one character ("\n", " ", "x")  *)
(* or an indivisible piece of text such as a whole JSON document; chunk     *)
(* and line boundaries fall between atoms.  A log record is the sequence of *)
(* the pieces of its template string, the blanks between pieces left out    *)
(* (the four blanks that open a detail record are kept).                    *)
(***************************************************************************)
EXTENDS Integers, Sequences, FiniteSets, TLC

VARIABLES
    pendingRequests,  \* ctx.pendingRequests: id -> [method, toolName, ts]
    written,          \* what Logger.write received, in order: [colored, plain]
    colors,           \* ctx.colors: createColors(isTTY)
    now,              \* the clock read by Date.now() and timestamp()
    calls,            \* one entry per formatMessage call, in order
    clientBuffer,     \* buffer of the client line buffer
    serverBuffer,     \* buffer of the server line buffer
    stdinData,        \* everything read from the proxy's stdin so far
    childStdout,      \* everything the child has written to its stdout so far
    childStdoutData,  \* everything read from the child's stdout so far
    childStdin,       \* everything written to the child's stdin so far
    procStdout,       \* everything written to the proxy's stdout so far
    childStderrData,  \* everything read from the child's stderr so far
    killTimer,        \* whether shutdown's 3 s timer is set
    procExit,         \* the status the proxy called process.exit with, Null before
    httpClients,      \* Logger.httpClients: the responses lines are fanned out to
    responses,        \* the HTTP responses: res -> [connected, closed, throws, body]
    files,            \* the log directory: name -> [present, created, content, mtime]
    dirEntries,       \* the names present in the directory, in readdirSync's order
    clock,            \* the file system's clock, in ms
    opts,             \* the WatchOptions watch() was called with, Null before
    streams,          \* one entry per streamFile call, in order: its closure
    waitInterval,     \* whether a directory wait timer is set
    tailStdout,       \* everything the tail wrote to its stdout so far
    tailStderr,       \* everything the tail wrote to its stderr so far
    exitCode,         \* how the tail process ended, Null while it runs
    probe             \* the latest call of a function called on its own: [fn, ...]

fmtVars == <<pendingRequests, written, colors, now, calls>>
proxyVars ==
    <<clientBuffer, serverBuffer, stdinData, childStdout, childStdoutData, childStdin,
      procStdout, childStderrData, killTimer, procExit>>
logVars == <<httpClients, responses>>
tailVars ==
    <<files, dirEntries, clock, opts, streams, waitInterval, tailStdout, tailStderr,
      exitCode>>
vars == <<fmtVars, proxyVars, tailVars, probe, logVars>>

(***************************************************************************)
(* Bounds of the model.                                                    *)
(***************************************************************************)
MaxCalls == 3   \* formatMessage calls in one session
MaxTime == 1    \* clock ticks in one session
MaxChunk == 2   \* atoms in one chunk of a stream
MaxStream == 3  \* atoms one stream carries in one session

(***************************************************************************)
(* Text utilities.                                                         *)
(***************************************************************************)
NL == "\n"
Whitespace == {" ", "\t", "\r", NL}
Null == "<null>"

\* String.prototype.trim
RECURSIVE TrimLeft(_)
TrimLeft(s) ==
    IF s # <<>> /\ Head(s) \in Whitespace THEN TrimLeft(Tail(s)) ELSE s

RECURSIVE TrimRight(_)
TrimRight(s) ==
    IF s # <<>> /\ s[Len(s)] \in Whitespace
    THEN TrimRight(SubSeq(s, 1, Len(s) - 1)) ELSE s

Trim(s) == TrimRight(TrimLeft(s))

\* the position a relative index of slice() stands for: a negative one counts
\* from the end, and both ways it is clamped to 0..len
SliceIndex(i, len) ==
    IF i < 0 THEN (IF len + i < 0 THEN 0 ELSE len + i)
    ELSE (IF i > len THEN len ELSE i)

\* String.prototype.slice(start, end) and Array.prototype.slice(start, end)
Slice(s, start, end) ==
    SubSeq(s, SliceIndex(start, Len(s)) + 1, SliceIndex(end, Len(s)))

\* a truncate that cuts at max and then appends the dots
TruncateCutAtMax(str, max) ==
    IF Len(str) <= max THEN str
    ELSE Slice(str, 0, max) \o <<".", ".", ".">>

\* truncate(str, max)
Truncate(str, max) ==
    IF Len(str) <= max THEN str
    ELSE Slice(str, 0, max - 3) \o <<".", ".", ".">>

\* timestamp(): HH:MM:SS.mmm of the clock (the clock stays below 10 ms)
Timestamp(t) == "00:00:00.00" \o ToString(t)

\* Array.prototype.join
RECURSIVE Join(_, _)
Join(names, sep) ==
    IF names = <<>> THEN <<>>
    ELSE IF Len(names) = 1 THEN <<names[1]>>
    ELSE <<names[1], sep>> \o Join(Tail(names), sep)

(***************************************************************************)
(* Colors.                                                                 *)
(***************************************************************************)
ANSI == [RESET |-> "ESC[0m", BOLD |-> "ESC[1m", DIM |-> "ESC[2m",
         RED |-> "ESC[31m", GREEN |-> "ESC[32m", YELLOW |-> "ESC[33m",
         BLUE |-> "ESC[34m", MAGENTA |-> "ESC[35m", CYAN |-> "ESC[36m",
         WHITE |-> "ESC[37m"]

PLAIN == [RESET |-> "", BOLD |-> "", DIM |-> "", RED |-> "", GREEN |-> "",
          YELLOW |-> "", BLUE |-> "", MAGENTA |-> "", CYAN |-> "", WHITE |-> ""]

createColors(isTTY) == IF isTTY THEN ANSI ELSE PLAIN

\* method.startsWith(prefix), for the method names of the model
MethodFamily(method) ==
    CASE method \in {"initialize"} -> "initialize"
      [] method \in {"tools/list", "tools/call"} -> "tools/"
      [] method \in {"resources/list"} -> "resources/"
      [] method \in {"prompts/list"} -> "prompts/"
      [] method \in {"notifications/progress", "notifications/initialized"} -> "notifications/"
      [] OTHER -> ""

methodColor(method, c) ==
    IF method = "" THEN c.WHITE
    ELSE CASE MethodFamily(method) = "initialize" -> c.MAGENTA
           [] MethodFamily(method) = "tools/" -> c.GREEN
           [] MethodFamily(method) = "resources/" -> c.CYAN
           [] MethodFamily(method) = "prompts/" -> c.YELLOW
           [] MethodFamily(method) = "notifications/" -> c.BLUE
           [] OTHER -> c.WHITE

\* the pair Logger.write(coloredLine, plainLine) receives
Rec(colored, plain) == [colored |-> colored, plain |-> plain]

(***************************************************************************)
(* JSON values.  A result payload, as formatResult probes it.              *)
(***************************************************************************)
NoArray == [isArray |-> FALSE, items |-> <<>>]
Array(items) == [isArray |-> TRUE, items |-> items]

\* an element of result.tools / resources / prompts ("" is an absent field)
Item(name, uri) == [isNull |-> FALSE, name |-> name, uri |-> uri]

\* block.text: whether it is a string, the lines text.split("\n") gives, the
\* kind of value JSON.parse gives ("invalid" when it throws), and the lines
\* of JSON.stringify(value, null, 2) after the three clean-up passes
NoText == [isString |-> FALSE, value |-> "undefined", json |-> <<>>, lines |-> <<>>]
PlainText(lines) == [isString |-> TRUE, value |-> "invalid", json |-> <<>>, lines |-> lines]
JsonText(value, lines, json) ==
    [isString |-> TRUE, value |-> value, json |-> json, lines |-> lines]

\* typeof parsed
TypeOf(value) == IF value \in {"object", "array", "null"} THEN "object" ELSE value

\* an element of result.content
Block(type, text, raw) ==
    [isNull |-> FALSE, type |-> type, text |-> text, dataLen |-> 0,
     mimeType |-> "", uri |-> "", raw |-> raw]
ImageBlock(mimeType, dataLen) ==
    [Block("image", NoText, <<>>) EXCEPT !.mimeType = mimeType, !.dataLen = dataLen]
ResourceBlock(uri) == [Block("resource", NoText, <<>>) EXCEPT !.uri = uri]
NullBlock == [Block("", NoText, <<"null">>) EXCEPT !.isNull = TRUE]

\* result.capabilities: whether it is truthy, the kind of value it is, and what
\* Object.keys gives for it (the own enumerable keys: none for a number or a
\* boolean, the indices for a string)
EmptyObject ==
    [truthy |-> TRUE, tools |-> NoArray, resources |-> NoArray,
     prompts |-> NoArray, content |-> NoArray, isError |-> FALSE,
     capabilities |-> [truthy |-> FALSE, kind |-> "undefined", keys |-> <<>>],
     serverInfo |-> [name |-> "", version |-> ""],
     json |-> <<"{", "}">>]
Undefined == [EmptyObject EXCEPT !.truthy = FALSE, !.json = <<>>]

ToolsResult ==
    [EmptyObject EXCEPT !.tools = Array(<<Item("echo", ""), Item("add", "")>>),
        !.json = <<"{", "\"tools\":[{\"name\":\"echo\"},{\"name\":\"add\"}]", "}">>]
TextResult ==
    [EmptyObject EXCEPT
        !.content = Array(<<Block("text", PlainText(<<"hi", "there">>), <<>>),
                            ImageBlock("image/png", 4096)>>),
        !.isError = TRUE,
        !.json = <<"{", "\"content\":[...]", ",", "\"isError\":true", "}">>]
BadTextResult ==
    [EmptyObject EXCEPT
        !.content = Array(<<Block("text", NoText, <<>>)>>),
        !.json = <<"{", "\"content\":[{\"type\":\"text\"}]", "}">>]
InitResult ==
    [EmptyObject EXCEPT
        !.capabilities = [truthy |-> TRUE, kind |-> "object",
                          keys |-> <<"tools", "logging">>],
        !.serverInfo = [name |-> "srv", version |-> ""],
        !.json = <<"{", "\"capabilities\":{...}", ",", "\"serverInfo\":{\"name\":\"srv\"}", "}">>]

(***************************************************************************)
(* JSON-RPC messages: the value JSON.parse returns, as formatMessage       *)
(* probes it.                                                              *)
(***************************************************************************)
NoParams == [truthy |-> FALSE, name |-> "", arguments |-> <<>>, nkeys |-> 0, json |-> <<>>]
NoError == [truthy |-> FALSE, code |-> "", message |-> ""]

EmptyMessage ==
    [kind |-> "object", hasId |-> FALSE, id |-> 0, hasMethod |-> FALSE,
     method |-> "", params |-> NoParams, error |-> NoError, result |-> Undefined]

Notification(method, params) ==
    [EmptyMessage EXCEPT !.hasMethod = TRUE, !.method = method, !.params = params]
Request(id, method, params) ==
    [EmptyMessage EXCEPT !.hasId = TRUE, !.id = id, !.hasMethod = TRUE,
                         !.method = method, !.params = params]
Response(id, result) ==
    [EmptyMessage EXCEPT !.hasId = TRUE, !.id = id, !.result = result]
ErrorResponse(id, code, message) ==
    [EmptyMessage EXCEPT !.hasId = TRUE, !.id = id,
                         !.error = [truthy |-> TRUE, code |-> code, message |-> message]]

\* the JSON documents of the model
NotifProgress == "{\"method\":\"notifications/progress\",\"params\":{\"token\":\"abc\"}}"
ReqToolsList1 == "{\"id\":1,\"method\":\"tools/list\"}"
ReqToolsCall1 == "{\"id\":1,\"method\":\"tools/call\",\"params\":{\"name\":\"echo\",\"arguments\":{\"msg\":\"hi\"}}}"
ReqInitialize2 == "{\"id\":2,\"method\":\"initialize\",\"params\":{\"protocolVersion\":\"1\"}}"
ResTools1 == "{\"id\":1,\"result\":{\"tools\":[{\"name\":\"echo\"},{\"name\":\"add\"}]}}"
ResText1 == "{\"id\":1,\"result\":{\"content\":[{\"type\":\"text\",\"text\":\"hi\\nthere\"},{\"type\":\"image\",...}],\"isError\":true}}"
ResBadText1 == "{\"id\":1,\"result\":{\"content\":[{\"type\":\"text\"}]}}"
ResInit2 == "{\"id\":2,\"result\":{\"capabilities\":{\"tools\":{},\"logging\":{}},\"serverInfo\":{\"name\":\"srv\"}}}"
ErrNotFound1 == "{\"id\":1,\"error\":{\"code\":-32601,\"message\":\"Method not found\"}}"
ErrEmpty2 == "{\"id\":2,\"error\":{}}"
EmptyMethod1 == "{\"id\":1,\"method\":\"\"}"
NoIdNoMethod == "{\"jsonrpc\":\"2.0\"}"
JsonNull == "null"
NotJson == "not json at all"

JsonTexts ==
    {NotifProgress, ReqToolsList1, ReqToolsCall1, ReqInitialize2, ResTools1,
     ResText1, ResBadText1, ResInit2, ErrNotFound1, ErrEmpty2, EmptyMethod1,
     NoIdNoMethod, JsonNull}

Ids == {1, 2}

\* the value of each document
Parsed(text) ==
    CASE text = NotifProgress ->
            Notification("notifications/progress",
                [truthy |-> TRUE, name |-> "", arguments |-> <<>>, nkeys |-> 1,
                 json |-> <<"{\"token\":\"abc\"}">>])
      [] text = ReqToolsList1 -> Request(1, "tools/list", NoParams)
      [] text = ReqToolsCall1 ->
            Request(1, "tools/call",
                [truthy |-> TRUE, name |-> "echo",
                 arguments |-> <<"{", "  \"msg\": \"hi\"", "}">>, nkeys |-> 2,
                 json |-> <<"{\"name\":\"echo\",\"arguments\":{\"msg\":\"hi\"}}">>])
      [] text = ReqInitialize2 ->
            Request(2, "initialize",
                [truthy |-> TRUE, name |-> "", arguments |-> <<>>, nkeys |-> 1,
                 json |-> <<"{\"protocolVersion\":\"1\"}">>])
      [] text = ResTools1 -> Response(1, ToolsResult)
      [] text = ResText1 -> Response(1, TextResult)
      [] text = ResBadText1 -> Response(1, BadTextResult)
      [] text = ResInit2 -> Response(2, InitResult)
      [] text = ErrNotFound1 -> ErrorResponse(1, "-32601", "Method not found")
      [] text = ErrEmpty2 -> ErrorResponse(2, "", "")
      [] text = EmptyMethod1 -> [EmptyMessage EXCEPT !.hasId = TRUE, !.id = 1, !.hasMethod = TRUE]
      [] text = NoIdNoMethod -> EmptyMessage
      [] OTHER -> [EmptyMessage EXCEPT !.kind = "null"]

\* JSON.parse(json): blanks around the document are allowed, anything else throws
JSONParse(json) ==
    LET t == Trim(json)
    IN  IF Len(t) = 1 /\ t[1] \in JsonTexts
        THEN [throws |-> FALSE, value |-> Parsed(t[1])]
        ELSE [throws |-> TRUE, value |-> EmptyMessage]

(***************************************************************************)
(* formatResult.  The outcome of a call is the records it wrote and         *)
(* whether it threw (the records written before the throw stay written).    *)
(***************************************************************************)
Done(recs) == [written |-> recs, threw |-> FALSE]
Thrown(recs) == [written |-> recs, threw |-> TRUE]

AnyNull(items) == \E k \in DOMAIN items : items[k].isNull

\* a summary that shortens from 8 names on and keeps 8 of them
SummaryKeepEight(names) ==
    IF Len(names) < 8 THEN Join(names, ", ")
    ELSE Join(SubSeq(names, 1, 8), ", ")
            \o <<", ... +", ToString(Len(names) - 8), " more">>

\* names.length <= 8 ? names.join(", ") : first 6 + ", ... +N more"
Summary(names) ==
    IF Len(names) <= 8 THEN Join(names, ", ")
    ELSE Join(SubSeq(names, 1, 6), ", ")
            \o <<", ... +", ToString(Len(names) - 6), " more">>

\* the one record of a tools/list, resources/list or prompts/list result
ListRecord(color, c, kind, names) ==
    LET body == <<"(", ToString(Len(names)), kind>> \o Summary(names) \o <<")">>
    IN  Rec(<<"    ", color>> \o body \o <<c.RESET>>, <<"    ">> \o body)

\* tryFormatJson without `parsed === null ||`
TryFormatJsonNoNull(text) ==
    IF ~text.isString \/ text.value = "invalid" THEN <<>>
    ELSE IF TypeOf(text.value) # "object" THEN <<>>
    ELSE text.json

\* tryFormatJson without the test of the parsed value's type
TryFormatJsonAnyValue(text) ==
    IF ~text.isString \/ text.value = "invalid" THEN <<>>
    ELSE text.json

\* tryFormatJson(text): the pretty-printed lines, or <<>> for null.  What is
\* not a string parses to no object (JSON.parse throws or gives a primitive).
tryFormatJson(text) ==
    IF ~text.isString \/ text.value = "invalid" THEN <<>>
    ELSE IF text.value = "null" \/ TypeOf(text.value) # "object" THEN <<>>
    ELSE text.json

\* Math.round((data.length * 3) / 4 / 1024)
ImageSizeKB(dataLen) == (dataLen * 3 * 2 + 4096) \div (2 * 4096)

\* the text branch of the loop over result.content, formatted being what
\* tryFormatJson(text) returned
FormatTextBlock(text, formatted, c) ==
    IF formatted # <<>>
    THEN Done(<<Rec(<<"    ", c.DIM, "[text]", c.RESET>>, <<"    ", "[text]">>)>>
              \o [k \in DOMAIN formatted |->
                    Rec(<<"    ", c.DIM, "    ", formatted[k], c.RESET>>,
                        <<"        ", formatted[k]>>)])
    ELSE IF ~text.isString THEN Thrown(<<>>)
    ELSE Done([k \in DOMAIN text.lines |->
                Rec(<<"    ", c.DIM, "[text]", c.RESET, text.lines[k]>>,
                    <<"    ", "[text]", text.lines[k]>>)])

\* one pass of the loop over result.content
FormatBlock(block, c) ==
    IF block.isNull THEN Thrown(<<>>)
    ELSE IF block.type = "text" THEN
        FormatTextBlock(block.text, tryFormatJson(block.text), c)
    ELSE IF block.type = "image" THEN
        LET size == IF block.dataLen > 0
                    THEN ToString(ImageSizeKB(block.dataLen)) \o "KB" ELSE "?"
            mime == IF block.mimeType # "" THEN block.mimeType ELSE "?"
        IN  Done(<<Rec(<<"    ", c.DIM, "[image", mime, "]", c.RESET, size>>,
                       <<"    ", "[image", mime, "]", size>>)>>)
    ELSE IF block.type = "resource" THEN
        LET uri == Truncate(<<IF block.uri # "" THEN block.uri ELSE "?">>, 200)
        IN  Done(<<Rec(<<"    ", c.DIM, "[resource]", c.RESET>> \o uri,
                       <<"    ", "[resource]">> \o uri)>>)
    ELSE
        LET raw == Truncate(block.raw, 200)
            type == IF block.type # "" THEN block.type ELSE "?"
        IN  Done(<<Rec(<<"    ", c.DIM, "[", type, "]", c.RESET>> \o raw,
                       <<"    ", "[", type, "]">> \o raw)>>)

RECURSIVE FormatBlocks(_, _)
FormatBlocks(content, c) ==
    IF content = <<>> THEN Done(<<>>)
    ELSE LET one == FormatBlock(Head(content), c)
         IN  IF one.threw THEN one
             ELSE LET rest == FormatBlocks(Tail(content), c)
                  IN  [written |-> one.written \o rest.written, threw |-> rest.threw]

formatResult(method, result, c) ==
    IF ~result.truthy THEN Done(<<>>)
    ELSE IF method = "tools/list" /\ result.tools.isArray THEN
        IF AnyNull(result.tools.items) THEN Thrown(<<>>)
        ELSE Done(<<ListRecord(c.GREEN, c, "tools:",
                        [k \in DOMAIN result.tools.items |-> result.tools.items[k].name])>>)
    ELSE IF method = "resources/list" /\ result.resources.isArray THEN
        IF AnyNull(result.resources.items) THEN Thrown(<<>>)
        ELSE Done(<<ListRecord(c.CYAN, c, "resources:",
                        [k \in DOMAIN result.resources.items |->
                            IF result.resources.items[k].name # ""
                            THEN result.resources.items[k].name
                            ELSE result.resources.items[k].uri])>>)
    ELSE IF method = "prompts/list" /\ result.prompts.isArray THEN
        IF AnyNull(result.prompts.items) THEN Thrown(<<>>)
        ELSE Done(<<ListRecord(c.YELLOW, c, "prompts:",
                        [k \in DOMAIN result.prompts.items |-> result.prompts.items[k].name])>>)
    ELSE IF method = "tools/call" /\ result.content.isArray THEN
        LET blocks == FormatBlocks(result.content.items, c)
        IN  IF blocks.threw THEN blocks
            ELSE IF result.isError
            THEN Done(blocks.written
                      \o <<Rec(<<"    ", c.RED, "(isError: true)", c.RESET>>,
                               <<"    ", "(isError: true)">>)>>)
            ELSE blocks
    ELSE IF method = "initialize" /\ result.capabilities.truthy THEN
        LET caps == Join(result.capabilities.keys, ", ")
            name == IF result.serverInfo.name # "" THEN result.serverInfo.name ELSE "?"
            version == IF result.serverInfo.version # ""
                       THEN result.serverInfo.version ELSE "?"
        IN  Done(<<Rec(<<"    ", c.MAGENTA, name, "v", version, c.RESET, "capabilities:">> \o caps,
                       <<"    ", name, "v", version, "capabilities:">> \o caps)>>)
    ELSE IF Len(result.json) > 2 THEN
        LET display == Truncate(result.json, 300)
        IN  Done(<<Rec(<<"    ", c.DIM>> \o display \o <<c.RESET>>, <<"    ">> \o display)>>)
    ELSE Done(<<>>)

(***************************************************************************)
(* formatMessage.                                                          *)
(***************************************************************************)
\* Map.prototype.set / delete / get
MapSet(map, key, value) ==
    [k \in DOMAIN map \cup {key} |-> IF k = key THEN value ELSE map[k]]
MapDelete(map, key) == [k \in DOMAIN map \ {key} |-> map[k]]
MapHas(map, key) == key \in DOMAIN map

\* direction === "client" ? ... : ...
DirArrow(direction) == IF direction = "client" THEN "->" ELSE "<-"
DirLabel(direction) == IF direction = "client" THEN "CLIENT" ELSE "SERVER"
DirColor(direction, c) == IF direction = "client" THEN c.CYAN ELSE c.GREEN

\* the opening pieces every header record shares
HeaderColored(direction, c, ts) ==
    <<c.DIM, ts, c.RESET, DirColor(direction, c), DirArrow(direction),
      DirLabel(direction), c.RESET>>

\* a plain header that leaves the arrow to the styled rendering
HeaderPlainNoArrow(direction, ts) == <<ts, DirLabel(direction)>>

\* the same pieces without the style codes
HeaderPlain(direction, ts) == <<ts, DirArrow(direction), DirLabel(direction)>>

\* `method &&`: a missing and an empty method are both falsy
MethodTruthy(msg) == msg.hasMethod /\ msg.method # ""

\* Classify with `method !== undefined` in place of `method &&`
ClassifyByPresence(msg) ==
    IF msg.hasMethod /\ ~msg.hasId THEN "notification"
    ELSE IF msg.hasMethod /\ msg.hasId THEN "request"
    ELSE IF msg.hasId /\ ~msg.hasMethod THEN "response"
    ELSE "shape"

\* the branch of formatMessage a parsed message takes
Classify(msg) ==
    IF MethodTruthy(msg) /\ ~msg.hasId THEN "notification"
    ELSE IF MethodTruthy(msg) /\ msg.hasId THEN "request"
    ELSE IF msg.hasId /\ ~MethodTruthy(msg) THEN "response"
    ELSE "shape"

\* the truncated-params detail record
ParamsRecord(params, c) ==
    LET paramStr == Truncate(params.json, 200)
    IN  Rec(<<"    ", c.DIM>> \o paramStr \o <<c.RESET>>, <<"    ">> \o paramStr)

\* method === "tools/call" && params?.name ? params.name : null
ToolNameOf(msg) ==
    IF msg.method = "tools/call" /\ msg.params.truthy /\ msg.params.name # ""
    THEN msg.params.name ELSE Null

\* RegisterRequest that leaves an entry already pending alone
RegisterRequestKeepFirst(pending, direction, msg, t) ==
    IF MapHas(pending, msg.id) THEN pending
    ELSE MapSet(pending, msg.id, [method |-> msg.method, toolName |-> ToolNameOf(msg), ts |-> t])

\* RegisterRequest that tracks the requests of the client alone
RegisterRequestClientOnly(pending, direction, msg, t) ==
    IF direction = "client"
    THEN MapSet(pending, msg.id, [method |-> msg.method, toolName |-> ToolNameOf(msg), ts |-> t])
    ELSE pending

\* pendingRequests.set(id, { method, toolName, ts: Date.now() })
RegisterRequest(pending, direction, msg, t) ==
    MapSet(pending, msg.id, [method |-> msg.method, toolName |-> ToolNameOf(msg), ts |-> t])

\* ReqMethod without the "unknown" default
ReqMethodNoDefault(pending, id) ==
    IF MapHas(pending, id) THEN pending[id].method ELSE "undefined"

\* pending?.method || "unknown"
ReqMethod(pending, id) ==
    IF MapHas(pending, id) THEN pending[id].method ELSE "unknown"

\* pending ? `${Date.now() - pending.ts}ms` : ""
Elapsed(pending, id, t) ==
    IF MapHas(pending, id) THEN ToString(t - pending[id].ts) \o "ms" ELSE ""

\* pendingRequests.delete(id)
ForgetRequest(pending, id) == MapDelete(pending, id)

FormatNotification(msg, direction, c, ts) ==
    LET mc == methodColor(msg.method, c)
        head == Rec(HeaderColored(direction, c, ts)
                        \o <<c.BLUE, "notification", c.RESET, mc, msg.method, c.RESET>>,
                    HeaderPlain(direction, ts) \o <<"notification", msg.method>>)
    IN  IF msg.params.truthy /\ msg.params.nkeys > 0
        THEN <<head, ParamsRecord(msg.params, c)>>
        ELSE <<head>>

FormatRequest(msg, direction, c, ts) ==
    LET mc == methodColor(msg.method, c)
        toolName == ToolNameOf(msg)
        extra == IF toolName # Null THEN <<c.BOLD, toolName, c.RESET>> ELSE <<>>
        extraPlain == IF toolName # Null THEN <<toolName>> ELSE <<>>
        idStr == "#" \o ToString(msg.id)
        head == Rec(HeaderColored(direction, c, ts)
                        \o <<c.WHITE, "request", c.RESET, mc, msg.method, c.RESET>>
                        \o extra \o <<c.DIM, idStr, c.RESET>>,
                    HeaderPlain(direction, ts) \o <<"request", msg.method>>
                        \o extraPlain \o <<idStr>>)
    IN  IF msg.method = "tools/call" /\ msg.params.truthy /\ msg.params.arguments # <<>>
        THEN <<head>> \o [k \in DOMAIN msg.params.arguments |->
                            Rec(<<"    ", c.DIM, msg.params.arguments[k], c.RESET>>,
                                <<"    ", msg.params.arguments[k]>>)]
        ELSE IF msg.params.truthy /\ msg.params.nkeys > 0
        THEN <<head, ParamsRecord(msg.params, c)>>
        ELSE <<head>>

\* the response branch: [written, pendingRequests, threw]
FormatResponse(msg, direction, c, ts, pending, t) ==
    LET reqMethod == ReqMethod(pending, msg.id)
        mc == methodColor(reqMethod, c)
        elapsed == Elapsed(pending, msg.id, t)
        idStr == "#" \o ToString(msg.id)
    IN  IF msg.error.truthy THEN
            LET code == IF msg.error.code # "" THEN msg.error.code ELSE "?"
                errMsg == IF msg.error.message # "" THEN msg.error.message
                          ELSE "Unknown error"
            IN  [written |->
                    <<Rec(HeaderColored(direction, c, ts)
                            \o <<c.RED, c.BOLD, "ERROR", c.RESET, mc, "(", reqMethod,
                                 idStr, ")", c.RESET, c.DIM, elapsed, c.RESET>>,
                          HeaderPlain(direction, ts)
                            \o <<"ERROR", "(", reqMethod, idStr, ")", elapsed>>),
                      Rec(<<"    ", c.RED, "[", code, "]", errMsg, c.RESET>>,
                          <<"    ", "[", code, "]", errMsg>>)>>,
                 pendingRequests |-> ForgetRequest(pending, msg.id),
                 threw |-> FALSE]
        ELSE
            LET head == Rec(HeaderColored(direction, c, ts)
                                \o <<c.WHITE, "response", c.RESET, mc, reqMethod, c.RESET,
                                     c.DIM, idStr, elapsed, c.RESET>>,
                            HeaderPlain(direction, ts)
                                \o <<"response", reqMethod, idStr, elapsed>>)
                res == formatResult(reqMethod, msg.result, c)
            IN  [written |-> <<head>> \o res.written,
                 pendingRequests |->
                    IF res.threw THEN pending ELSE ForgetRequest(pending, msg.id),
                 threw |-> res.threw]

\* the record for a parsed value that is no notification, request or response
FormatShape(json, direction, c, ts) ==
    LET raw == Truncate(Trim(json), 200)
    IN  <<Rec(HeaderColored(direction, c, ts) \o <<c.DIM>> \o raw \o <<c.RESET>>,
              HeaderPlain(direction, ts) \o raw)>>

\* the body of the try block: [written, pendingRequests, threw]
TryBlock(json, direction, pending, c, ts, t) ==
    LET parsed == JSONParse(json)
        msg == parsed.value
    IN  IF parsed.throws \/ msg.kind = "null"
        THEN [written |-> <<>>, pendingRequests |-> pending, threw |-> TRUE]
        ELSE CASE Classify(msg) = "notification" ->
                    [written |-> FormatNotification(msg, direction, c, ts),
                     pendingRequests |-> pending, threw |-> FALSE]
               [] Classify(msg) = "request" ->
                    [written |-> FormatRequest(msg, direction, c, ts),
                     pendingRequests |-> RegisterRequest(pending, direction, msg, t),
                     threw |-> FALSE]
               [] Classify(msg) = "response" ->
                    FormatResponse(msg, direction, c, ts, pending, t)
               [] OTHER ->
                    [written |-> FormatShape(json, direction, c, ts),
                     pendingRequests |-> pending, threw |-> FALSE]

\* the catch block's record
CatchRecord(json, direction, c, ts) ==
    LET raw == Truncate(Trim(json), 200)
    IN  Rec(HeaderColored(direction, c, ts) \o <<c.YELLOW, "[raw]", c.RESET>> \o raw,
            HeaderPlain(direction, ts) \o <<"[raw]">> \o raw)

\* TryCatch without the catch block: the exception leaves the function
TryCatchRethrow(body, json, direction, c, ts) ==
    [written |-> body.written, pendingRequests |-> body.pendingRequests,
     caught |-> FALSE, raised |-> body.threw]

\* try { ... } catch { ... }: what the call wrote, the map it leaves, whether
\* the catch block ran and whether an exception left the function
TryCatch(body, json, direction, c, ts) ==
    IF body.threw
    THEN [written |-> Append(body.written, CatchRecord(json, direction, c, ts)),
          pendingRequests |-> body.pendingRequests, caught |-> TRUE, raised |-> FALSE]
    ELSE [written |-> body.written, pendingRequests |-> body.pendingRequests,
          caught |-> FALSE, raised |-> FALSE]

formatMessage(json, direction, pending, c, t) ==
    LET ts == Timestamp(t)
    IN  TryCatch(TryBlock(json, direction, pending, c, ts, t), json, direction, c, ts)

(***************************************************************************)
(* createLineBuffer and the two line handlers of startProxy.               *)
(***************************************************************************)
\* buffer.indexOf("\n"), counted from 1; 0 when there is none
RECURSIVE IndexOfNewline(_, _)
IndexOfNewline(buffer, from) ==
    IF from > Len(buffer) THEN 0
    ELSE IF buffer[from] = NL THEN from
    ELSE IndexOfNewline(buffer, from + 1)

\* the while loop of the line buffer: the lines handed to onLine, in order,
\* and the buffer that is left
RECURSIVE DrainLines(_)
DrainLines(buffer) ==
    LET newlineIdx == IndexOfNewline(buffer, 1)
    IN  IF newlineIdx = 0 THEN [lines |-> <<>>, buffer |-> buffer]
        ELSE LET line == SubSeq(buffer, 1, newlineIdx - 1)
                 rest == DrainLines(SubSeq(buffer, newlineIdx + 1, Len(buffer)))
             IN  [lines |-> IF Len(Trim(line)) > 0 THEN <<line>> \o rest.lines
                            ELSE rest.lines,
                  buffer |-> rest.buffer]

\* a line buffer that forgets what the chunk before left unterminated
LineBufferDropsTail(buffer, chunk) == DrainLines(chunk)

\* the closure createLineBuffer returns, applied to one chunk
LineBuffer(buffer, chunk) == DrainLines(buffer \o chunk)

\* what one formatMessage call adds to the observable state of a session
CallEntry(json, direction, pending, t, r) ==
    [json |-> json, direction |-> direction, at |-> t,
     first |-> 0, count |-> Len(r.written),
     before |-> pending, after |-> r.pendingRequests,
     caught |-> r.caught, raised |-> r.raised]

\* an onLine that forwards a line only when formatMessage could parse it
OnLineParsedOnly(line, direction, st, r) ==
    [pendingRequests |-> r.pendingRequests,
     written |-> st.written \o r.written,
     calls |-> Append(st.calls,
                      [CallEntry(line, direction, st.pendingRequests, st.now, r)
                          EXCEPT !.first = Len(st.written) + 1]),
     out |-> IF r.raised \/ r.caught THEN st.out ELSE st.out \o line \o <<NL>>,
     now |-> st.now,
     raised |-> r.raised]

\* onLine of a direction for one line, r being what formatMessage(line,
\* direction, ctx) did: the session after it and after write(line + "\n")
OnLine(line, direction, st, r) ==
    [pendingRequests |-> r.pendingRequests,
     written |-> st.written \o r.written,
     calls |-> Append(st.calls,
                      [CallEntry(line, direction, st.pendingRequests, st.now, r)
                          EXCEPT !.first = Len(st.written) + 1]),
     out |-> IF r.raised THEN st.out ELSE st.out \o line \o <<NL>>,
     now |-> st.now,
     raised |-> r.raised]

\* onLine of a direction, for the lines of one chunk in order
RECURSIVE OnLines(_, _, _, _)
OnLines(lines, direction, st, c) ==
    IF lines = <<>> \/ st.raised THEN st
    ELSE OnLines(Tail(lines), direction,
                 OnLine(Head(lines), direction, st,
                        formatMessage(Head(lines), direction, st.pendingRequests,
                                      c, st.now)),
                 c)

(***************************************************************************)
(* The tail engine's pure parts: colorize, findLatestLog, and the reading  *)
(* of a log file into lines.  A line of a log file is a sequence of atoms: *)
(* a word ("x", "ERROR", "request", "tools/list"), a blank, or another     *)
(* indivisible piece.                                                      *)
(***************************************************************************)
TimestampAtoms == {Timestamp(0), Timestamp(1)}
MethodAtoms == {"tools/list", "tools/call", "resources/list", "prompts/list",
                "notifications/progress"}
IdAtoms == {"#1", "#2"}
ElapsedAtoms == {"0ms", "1ms"}
BlankAtoms == {" ", "\t", "    "}
AnsiAtoms == {ANSI[k] : k \in DOMAIN ANSI}

\* the atoms that begin, and that end, with a word character [A-Za-z0-9_]
StartsWord ==
    {"x", "ERROR", "notification", "request", "response", "initialize"}
        \cup MethodAtoms \cup ElapsedAtoms \cup TimestampAtoms
EndsWord ==
    StartsWord \cup AnsiAtoms \cup IdAtoms \cup {"-> CLIENT", "<- SERVER"}

\* the atoms made of word characters only
WordOnly == {"x", "ERROR", "notification", "request", "response", "initialize"}

\* String.prototype.replace(regex, pre + "$&" + RESET): a match starts at an
\* atom of `atoms` (after a word boundary when `bBefore`), runs on through the
\* atoms of `more`, and ends at a word boundary when `bAfter`; every match is
\* replaced when `global`, the first one otherwise.  `prev` is the atom before
\* `rest` in the line being searched.
RECURSIVE MatchEnd(_, _, _)
MatchEnd(rest, more, n) ==
    IF n < Len(rest) /\ rest[n + 1] \in more THEN MatchEnd(rest, more, n + 1) ELSE n

RECURSIVE Replace(_, _, _, _, _, _, _, _, _)
Replace(done, prev, rest, atoms, more, pre, bBefore, bAfter, global) ==
    IF rest = <<>> THEN done
    ELSE LET a == Head(rest)
             n == MatchEnd(rest, more, 1)
             before == prev = Null \/ prev \notin EndsWord
             after == n = Len(rest) \/ rest[n + 1] \notin StartsWord
             hit == /\ a \in atoms
                    /\ bBefore => before
                    /\ bAfter => after
         IN  IF hit
             THEN LET out == done \o pre \o SubSeq(rest, 1, n) \o <<ANSI.RESET>>
                      left == SubSeq(rest, n + 1, Len(rest))
                  IN  IF global
                      THEN Replace(out, rest[n], left, atoms, more, pre,
                                   bBefore, bAfter, global)
                      ELSE out \o left
             ELSE Replace(Append(done, a), a, Tail(rest), atoms, more, pre,
                          bBefore, bAfter, global)

ReplaceAll(line, atoms, more, pre, bBefore, bAfter) ==
    Replace(<<>>, Null, line, atoms, more, pre, bBefore, bAfter, TRUE)

ReplaceFirst(line, atoms, pre) ==
    Replace(<<>>, Null, line, atoms, {}, pre, TRUE, TRUE, FALSE)

\* the atoms \S+ runs through: everything but blanks
NonBlank(line) == {line[i] : i \in DOMAIN line} \ BlankAtoms

\* line.replace(/^(\d{2}:\d{2}:\d{2}\.\d{3})/, DIM + "$1" + RESET)
DimTimestamp(line) ==
    IF line # <<>> /\ Head(line) \in TimestampAtoms
    THEN <<ANSI.DIM, Head(line), ANSI.RESET>> \o Tail(line)
    ELSE line

\* line.replace(/\bprefix\/\S+/g, pre + "$&" + RESET)
ReplaceRuns(line, atoms, pre) ==
    ReplaceAll(line, atoms, NonBlank(line), pre, TRUE, FALSE)

\* if (line.startsWith(prefix)) line = DIM + line + RESET
DimIfStarts(line, prefix) ==
    IF line # <<>> /\ Head(line) = prefix
    THEN <<ANSI.DIM>> \o line \o <<ANSI.RESET>> ELSE line

\* if (/^\s+\[[-\d]+\]/.test(line)) line = RED + line + RESET
RedIfErrorDetail(line) ==
    IF Len(line) >= 2 /\ Head(line) \in BlankAtoms /\ line[2] = "[-32601]"
    THEN <<ANSI.RED>> \o line \o <<ANSI.RESET>> ELSE line

\* the replacements of colorize, in the order of the code
DirectionLabels(line) ==
    ReplaceAll(
        ReplaceAll(DimTimestamp(line),
                   {"-> CLIENT"}, {}, <<ANSI.CYAN, ANSI.BOLD>>, FALSE, FALSE),
        {"<- SERVER"}, {}, <<ANSI.GREEN, ANSI.BOLD>>, FALSE, FALSE)

MessageTypes(line) ==
    ReplaceFirst(
        ReplaceFirst(
            ReplaceFirst(
                ReplaceAll(line, {"ERROR"}, {}, <<ANSI.RED, ANSI.BOLD>>, TRUE, TRUE),
                {"notification"}, <<ANSI.BLUE>>),
            {"request"}, <<ANSI.WHITE>>),
        {"response"}, <<ANSI.WHITE>>)

MethodNames(line) ==
    ReplaceRuns(
        ReplaceRuns(
            ReplaceRuns(
                ReplaceRuns(
                    ReplaceAll(line, {"initialize"}, WordOnly, <<ANSI.MAGENTA>>,
                               TRUE, FALSE),
                    {"tools/list", "tools/call"}, <<ANSI.GREEN>>),
                {"resources/list"}, <<ANSI.CYAN>>),
            {"prompts/list"}, <<ANSI.YELLOW>>),
        {"notifications/progress"}, <<ANSI.BLUE>>)

IdsAndElapsed(line) ==
    ReplaceAll(
        ReplaceAll(line, IdAtoms, {}, <<ANSI.DIM>>, FALSE, FALSE),
        ElapsedAtoms, {}, <<ANSI.DIM>>, FALSE, FALSE)

\* the three whole-line steps with the error-detail test first
WholeLineRedFirst(line) ==
    DimIfStarts(DimIfStarts(RedIfErrorDetail(line), "    "), "[server stderr]")

\* the three whole-line steps of colorize, in the order of the code
WholeLine(line) ==
    RedIfErrorDetail(DimIfStarts(DimIfStarts(line, "    "), "[server stderr]"))

\* a colorize that colors whatever useColor says
ColorizeAlways(line, useColor) ==
    WholeLine(IdsAndElapsed(MethodNames(MessageTypes(DirectionLabels(line)))))

\* colorize(line, useColor)
colorize(line, useColor) ==
    IF ~useColor THEN line
    ELSE WholeLine(IdsAndElapsed(MethodNames(MessageTypes(DirectionLabels(line)))))

\* the log directory
LogNames == {"a.log", "b.log"}
FileNames == LogNames \cup {"c.txt"}
EndsWithLog(entry) == entry \in LogNames
\* dangling: a symbolic link whose target is gone, on which statSync throws
NoFile ==
    [present |-> FALSE, created |-> FALSE, content |-> <<>>, mtime |-> 0,
     dangling |-> FALSE]

\* no function was called on its own yet
NoProbe == [fn |-> ""]

\* the WatchOptions before watch() is called
NoOpts == [watching |-> FALSE, file |-> Null, color |-> FALSE]

\* the order readdirSync enumerates the directory in is the file system's:
\* a new entry lands anywhere among the others, which keep their order
InsertAt(order, i, name) ==
    SubSeq(order, 1, i - 1) \o <<name>> \o SubSeq(order, i, Len(order))

Without(order, name) == SelectSeq(order, LAMBDA e : e # name)

\* the loop of findLatestLog over the entries
RECURSIVE LatestOf(_, _, _, _)
LatestOf(dir, entries, latest, latestMtime) ==
    IF entries = <<>> THEN latest
    ELSE LET entry == Head(entries)
         IN  IF ~EndsWithLog(entry)
             THEN LatestOf(dir, Tail(entries), latest, latestMtime)
             ELSE IF dir[entry].dangling
             THEN LatestOf(dir, Tail(entries), latest, latestMtime)
             ELSE IF dir[entry].mtime > latestMtime
             THEN LatestOf(dir, Tail(entries), entry, dir[entry].mtime)
             ELSE LatestOf(dir, Tail(entries), latest, latestMtime)

\* readdirSync(dir): it throws when the directory is absent
Listing(present, entries) == [throws |-> ~present, entries |-> entries]

\* findLatestLog(dir), readdirSync(dir) giving `listing`
findLatestLog(dir, listing) ==
    IF listing.throws THEN Null ELSE LatestOf(dir, listing.entries, Null, 0)

\* Buffer.prototype.toString("utf-8") of the bytes of one read.  A file holds
\* bytes: an atom other than "C3" and "A9" stands for characters of one
\* byte each, "C3" "A9" are the two bytes of the character U+00E9.  A byte of
\* an incomplete sequence decodes to the replacement character U+FFFD.
RECURSIVE ToStringUtf8(_)
ToStringUtf8(bytes) ==
    IF bytes = <<>> THEN <<>>
    ELSE IF Head(bytes) = "C3" /\ Len(bytes) >= 2 /\ bytes[2] = "A9"
    THEN <<"U+00E9">> \o ToStringUtf8(SubSeq(bytes, 3, Len(bytes)))
    ELSE IF Head(bytes) \in {"C3", "A9"}
    THEN <<"U+FFFD">> \o ToStringUtf8(Tail(bytes))
    ELSE <<Head(bytes)>> \o ToStringUtf8(Tail(bytes))

\* String.prototype.split("\n")
RECURSIVE Split(_, _, _)
Split(text, lines, line) ==
    IF text = <<>> THEN Append(lines, line)
    ELSE IF Head(text) = NL THEN Split(Tail(text), Append(lines, line), <<>>)
    ELSE Split(Tail(text), lines, Append(line, Head(text)))

\* the for loop over text.split("\n") of streamFile's initial read and of its
\* poll: every line but the last is written, the last one is carried
RECURSIVE WriteLines(_, _)
WriteLines(lines, useColor) ==
    IF lines = <<>> THEN <<>>
    ELSE colorize(Head(lines), useColor) \o <<NL>> \o WriteLines(Tail(lines), useColor)

ReadLines(text, useColor) ==
    LET lines == Split(text, <<>>, <<>>)
    IN  [out |-> WriteLines(SubSeq(lines, 1, Len(lines) - 1), useColor),
         partial |-> lines[Len(lines)]]

(***************************************************************************)
(* The state after construction.                                           *)
(***************************************************************************)
EmptyMap == <<>>

\* the HTTP responses of a session, and one no request has come for yet
Responses == {"res1", "res2"}
NoResponse == [connected |-> FALSE, closed |-> FALSE, throws |-> FALSE, body |-> <<>>]

\* everything but the function called on its own
InitButProbe ==
    /\ pendingRequests = EmptyMap
    /\ written = <<>>
    /\ colors = createColors(TRUE)
    /\ now = 0
    /\ calls = <<>>
    /\ clientBuffer = <<>>
    /\ serverBuffer = <<>>
    /\ stdinData = <<>>
    /\ childStdout = <<>>
    /\ childStdoutData = <<>>
    /\ childStdin = <<>>
    /\ procStdout = <<>>
    /\ childStderrData = <<>>
    /\ killTimer = FALSE
    /\ procExit = Null
    /\ httpClients = {}
    /\ responses = [res \in Responses |-> NoResponse]
    /\ files = [name \in FileNames |-> NoFile]
    /\ dirEntries = <<>>
    /\ clock = 1
    /\ opts = NoOpts
    /\ streams = <<>>
    /\ waitInterval = FALSE
    /\ tailStdout = <<>>
    /\ tailStderr = <<>>
    /\ exitCode = Null

Init == InitButProbe /\ probe = NoProbe

Crashed == \E k \in DOMAIN calls : calls[k].raised

\* time passes between two lines of a session
Tick ==
    /\ now < MaxTime
    /\ 0 < Len(calls) /\ Len(calls) < MaxCalls
    /\ ~Crashed
    /\ now' = now + 1
    /\ UNCHANGED <<pendingRequests, written, colors, calls, proxyVars, tailVars, probe, logVars>>

(***************************************************************************)
(* A formatter session: formatMessage called line by line on one context.  *)
(***************************************************************************)
Directions == {"client", "server"}

\* every line of the model, and the lines a session is fed
Lines == {<<t>> : t \in JsonTexts \cup {NotJson}} \cup {<<" ", NotJson, " ">>}

SessionLines ==
    {<<t>> : t \in {NotifProgress, ReqToolsList1, ReqToolsCall1, ResTools1, ResBadText1,
                    ErrNotFound1, ErrEmpty2, EmptyMethod1}}
        \cup {<<" ", NotJson, " ">>}

FormatMessageCall(json, direction) ==
    /\ Len(calls) < MaxCalls
    /\ ~Crashed
    /\ LET r == formatMessage(json, direction, pendingRequests, colors, now)
       IN  /\ pendingRequests' = r.pendingRequests
           /\ written' = written \o r.written
           /\ calls' = Append(calls,
                    [CallEntry(json, direction, pendingRequests, now, r)
                        EXCEPT !.first = Len(written) + 1])
    /\ UNCHANGED <<colors, now, proxyVars, tailVars, probe, logVars>>

Next ==
    \/ \E json \in SessionLines, direction \in Directions :
            FormatMessageCall(json, direction)
    \/ Tick

Spec == Init /\ [][Next]_vars

(***************************************************************************)
(* The same session observed one call at a time: the sink and the call     *)
(* history keep the latest call only, so sessions of any length and every  *)
(* line of the model are covered.                                          *)
(***************************************************************************)
FormatMessageOnce(json, direction) ==
    /\ ~Crashed
    /\ LET r == formatMessage(json, direction, pendingRequests, colors, now)
       IN  /\ pendingRequests' = r.pendingRequests
           /\ written' = r.written
           /\ calls' = <<[CallEntry(json, direction, pendingRequests, now, r)
                            EXCEPT !.first = 1]>>
    /\ UNCHANGED <<colors, now, proxyVars, tailVars, probe, logVars>>

CallNext ==
    \/ \E json \in Lines, direction \in Directions : FormatMessageOnce(json, direction)
    \/ Tick

CallSpec == Init /\ [][CallNext]_vars

(***************************************************************************)
(* A proxy session: startProxy's handlers of the data events of the        *)
(* proxy's stdin and of the child's stdout.                                 *)
(***************************************************************************)
ClientAtoms == {NL, " ", ReqToolsList1}
ServerAtoms == {NL, " ", ResTools1}

\* the chunks of at most MaxChunk atoms over an alphabet
Chunks(atoms) ==
    UNION {[1..n -> atoms] : n \in 1..MaxChunk}

\* the context a handler starts from
Context(out) ==
    [pendingRequests |-> pendingRequests, written |-> written, calls |-> calls,
     out |-> out, now |-> now, raised |-> FALSE]

\* process.stdin.on("data"): clientLineBuffer(chunk.toString("utf-8")); a session
\* reads at most max atoms from the stream
StdinData(chunk, max) ==
    /\ ~Crashed
    /\ procExit = Null
    /\ Len(stdinData) + Len(chunk) <= max
    /\ LET fed == LineBuffer(clientBuffer, chunk)
           st == OnLines(fed.lines, "client", Context(childStdin), colors)
       IN  /\ clientBuffer' = fed.buffer
           /\ pendingRequests' = st.pendingRequests
           /\ written' = st.written
           /\ calls' = st.calls
           /\ childStdin' = st.out
    /\ stdinData' = stdinData \o chunk
    /\ UNCHANGED <<colors, now, serverBuffer, childStdoutData, procStdout,
                   childStderrData, killTimer, procExit, tailVars, probe, logVars,
                   childStdout>>

\* child.stdout.on("data"): serverLineBuffer(chunk.toString("utf-8")); the bytes of
\* the event are bytes the child wrote, at the latest when the event fires
ChildStdoutData(chunk, max) ==
    /\ ~Crashed
    /\ procExit = Null
    /\ Len(childStdoutData) + Len(chunk) <= max
    /\ LET fed == LineBuffer(serverBuffer, chunk)
           st == OnLines(fed.lines, "server", Context(procStdout), colors)
       IN  /\ serverBuffer' = fed.buffer
           /\ pendingRequests' = st.pendingRequests
           /\ written' = st.written
           /\ calls' = st.calls
           /\ procStdout' = st.out
    /\ childStdoutData' = childStdoutData \o chunk
    /\ childStdout' = IF Len(childStdoutData') > Len(childStdout)
                      THEN childStdoutData' ELSE childStdout
    /\ UNCHANGED <<colors, now, clientBuffer, stdinData, childStdin,
                   childStderrData, killTimer, procExit, tailVars, probe, logVars>>

\* the records of child.stderr.on("data"): one per line that is not blank
RECURSIVE StderrRecords(_, _)
StderrRecords(lines, c) ==
    IF lines = <<>> THEN <<>>
    ELSE LET line == Head(lines)
             rest == StderrRecords(Tail(lines), c)
         IN  IF Len(Trim(line)) = 0 THEN rest
             ELSE <<Rec(<<c.DIM, "[server stderr]", c.RESET>> \o line,
                        <<"[server stderr]">> \o line)>> \o rest

\* a status message of the proxy, as startProxy hands it to logger.write
Status(msg, color, c) == Rec(<<color, msg, c.RESET>>, <<msg>>)

\* a passthrough that writes the child's stderr lines to the proxy's stdout
ChildStderrDataToStdout(chunk) ==
    /\ ~Crashed
    /\ procExit = Null
    /\ Len(childStderrData) + Len(chunk) <= MaxStream
    /\ written' = written \o StderrRecords(Split(chunk, <<>>, <<>>), colors)
    /\ procStdout' = procStdout \o chunk
    /\ childStderrData' = childStderrData \o chunk
    /\ UNCHANGED <<pendingRequests, colors, now, calls, clientBuffer, serverBuffer,
                   stdinData, childStdoutData, childStdin, killTimer,
                   procExit, tailVars, probe, logVars,
                   childStdout>>

\* a passthrough whose records get in before the last record written, as if
\* the handler ran while the call that wrote it was under way
ChildStderrDataAmid(chunk) ==
    /\ ~Crashed
    /\ procExit = Null
    /\ Len(childStderrData) + Len(chunk) <= MaxStream
    /\ LET recs == StderrRecords(Split(chunk, <<>>, <<>>), colors)
           n == Len(written)
       IN  written' = IF n = 0 THEN recs
                      ELSE SubSeq(written, 1, n - 1) \o recs \o <<written[n]>>
    /\ childStderrData' = childStderrData \o chunk
    /\ UNCHANGED <<pendingRequests, colors, now, calls, clientBuffer, serverBuffer,
                   stdinData, childStdoutData, childStdin, procStdout, killTimer,
                   procExit, tailVars, probe, logVars,
                   childStdout>>

\* child.stderr.on("data")
ChildStderrData(chunk) ==
    /\ ~Crashed
    /\ procExit = Null
    /\ Len(childStderrData) + Len(chunk) <= MaxStream
    /\ written' = written \o StderrRecords(Split(chunk, <<>>, <<>>), colors)
    /\ childStderrData' = childStderrData \o chunk
    /\ UNCHANGED <<pendingRequests, colors, now, calls, clientBuffer, serverBuffer,
                   stdinData, childStdoutData, childStdin, procStdout, killTimer,
                   procExit, tailVars, probe, logVars,
                   childStdout>>

\* child.on("error"): the server could not be started
ChildError ==
    /\ ~Crashed
    /\ procExit = Null
    /\ written' = Append(written,
            Status("[ilya] failed to start server: ENOENT", colors.RED, colors))
    /\ procExit' = "1"
    /\ UNCHANGED <<pendingRequests, colors, now, calls, clientBuffer, serverBuffer,
                   stdinData, childStdoutData, childStdin, procStdout, childStderrData,
                   killTimer, tailVars, probe, logVars,
                   childStdout>>

\* the (code, signal) pairs of the child's exit event
ExitEvents ==
    {[code |-> "0", signal |-> Null], [code |-> "1", signal |-> Null],
     [code |-> Null, signal |-> "SIGTERM"]}

\* child.on("exit")
ChildExit(code, signal) ==
    /\ ~Crashed
    /\ procExit = Null
    /\ LET exitStatus == IF code # Null THEN code
                         ELSE IF signal # Null THEN "1" ELSE "0"
           msg == IF signal # Null
                  THEN "[ilya] server exited with signal " \o signal
                  ELSE "[ilya] server exited with code " \o exitStatus
       IN  /\ written' = Append(written, Status(msg, colors.DIM, colors))
           /\ procExit' = exitStatus
    /\ UNCHANGED <<pendingRequests, colors, now, calls, clientBuffer, serverBuffer,
                   stdinData, childStdoutData, childStdin, procStdout, childStderrData,
                   killTimer, tailVars, probe, logVars,
                   childStdout>>

\* shutdown(sig), on SIGTERM and SIGINT; one signal reaches a session
Shutdown(sig) ==
    /\ ~Crashed
    /\ procExit = Null
    /\ ~killTimer
    /\ written' = Append(written,
            Status("[ilya] received " \o sig \o ", shutting down", colors.DIM, colors))
    /\ killTimer' = TRUE
    /\ UNCHANGED <<pendingRequests, colors, now, calls, clientBuffer, serverBuffer,
                   stdinData, childStdoutData, childStdin, procStdout, childStderrData,
                   procExit, tailVars, probe, logVars,
                   childStdout>>

\* the callback of shutdown's timer
ShutdownTimeout ==
    /\ ~Crashed
    /\ procExit = Null
    /\ killTimer
    /\ killTimer' = FALSE
    /\ procExit' = "1"
    /\ UNCHANGED <<fmtVars, clientBuffer, serverBuffer, stdinData, childStdoutData,
                   childStdin, procStdout, childStderrData, tailVars, probe, logVars,
                   childStdout>>

\* process.stdout.on("error"); the stream reports EPIPE once
EpipeStatus == Status("[ilya] client disconnected (EPIPE)", colors.DIM, colors)
StdoutError(code) ==
    /\ ~Crashed
    /\ procExit = Null
    /\ \A k \in DOMAIN written : written[k] # EpipeStatus
    /\ written' = IF code = "EPIPE" THEN Append(written, EpipeStatus) ELSE written
    /\ UNCHANGED <<pendingRequests, colors, now, calls, proxyVars, tailVars, probe,
                   logVars>>

ProxyNext ==
    \/ \E chunk \in Chunks(ClientAtoms) : StdinData(chunk, MaxStream)
    \/ \E chunk \in Chunks(ServerAtoms) : ChildStdoutData(chunk, MaxStream)
    \/ Tick

ProxySpec == Init /\ [][ProxyNext]_vars

(***************************************************************************)
(* A proxy session with every handler of startProxy: the data events of    *)
(* the three pipes, the child's error and exit events, the signals, and    *)
(* the error event of the proxy's stdout.  No HTTP server is started.      *)
(***************************************************************************)
PipeClientChunks == {<<ReqToolsList1, NL>>, <<NL>>}
PipeServerChunks == {<<ResTools1, NL>>, <<" ">>}
PipeStderrChunks == {<<"warn", NL>>, <<ReqToolsList1, NL, ResTools1>>, <<" ", NL>>}

PipeNext ==
    \/ \E chunk \in PipeClientChunks : StdinData(chunk, MaxStream)
    \/ \E chunk \in PipeServerChunks : ChildStdoutData(chunk, MaxStream)
    \/ \E chunk \in PipeStderrChunks : ChildStderrData(chunk)
    \/ ChildError
    \/ \E e \in ExitEvents : ChildExit(e.code, e.signal)
    \/ \E sig \in {"SIGTERM", "SIGINT"} : Shutdown(sig)
    \/ ShutdownTimeout
    \/ \E code \in {"EPIPE", "ECONNRESET"} : StdoutError(code)

PipeSpec == Init /\ [][PipeNext]_vars

(***************************************************************************)
(* A Logger with its HTTP subscribers: the request handler of              *)
(* startHttpServer, the close event of a request, a response whose write   *)
(* starts to throw, and Logger.write.                                      *)
(***************************************************************************)
MaxWrites == 3   \* calls of Logger.write in one session

StreamingHeader == "[mcp-tap] streaming logs for: server"

\* a fan-out that keeps the subscriber whose write threw
FanOutKeepFailed(clients, resp, plainLine) ==
    [httpClients |-> clients,
     responses |->
        [res \in Responses |->
            IF res \in clients /\ ~resp[res].throws
            THEN [resp[res] EXCEPT !.body = @ \o plainLine \o <<NL>>]
            ELSE resp[res]]]

\* the loop of Logger.write over httpClients: res.write(plainLine + "\n"),
\* and httpClients.delete(res) when it throws
FanOut(clients, resp, plainLine) ==
    [httpClients |-> {res \in clients : ~resp[res].throws},
     responses |->
        [res \in Responses |->
            IF res \in clients /\ ~resp[res].throws
            THEN [resp[res] EXCEPT !.body = @ \o plainLine \o <<NL>>]
            ELSE resp[res]]]

\* the records a session hands to Logger.write
LoggerRecords ==
    {EpipeStatus, Rec(<<colors.DIM, "[server stderr]", colors.RESET, "warn">>,
                      <<"[server stderr]", "warn">>)}

\* Logger.write(coloredLine, plainLine)
LoggerWrite(rec) ==
    /\ Len(written) < MaxWrites
    /\ written' = Append(written, rec)
    /\ LET fan == FanOut(httpClients, responses, rec.plain)
       IN  /\ httpClients' = fan.httpClients
           /\ responses' = fan.responses
    /\ UNCHANGED <<pendingRequests, colors, now, calls, proxyVars, tailVars, probe>>

\* the request handler of startHttpServer: writeHead, the first write, and
\* logger.addHttpClient(res)
AddHttpClient(res) ==
    /\ ~responses[res].connected
    /\ responses' = [responses EXCEPT ![res] =
            [@ EXCEPT !.connected = TRUE, !.body = <<StreamingHeader, NL, NL>>]]
    /\ httpClients' = httpClients \cup {res}
    /\ UNCHANGED <<fmtVars, proxyVars, tailVars, probe>>

\* req.on("close"): logger.removeHttpClient(res)
RequestClose(res) ==
    /\ responses[res].connected
    /\ ~responses[res].closed
    /\ responses' = [responses EXCEPT ![res].closed = TRUE]
    /\ httpClients' = httpClients \ {res}
    /\ UNCHANGED <<fmtVars, proxyVars, tailVars, probe>>

\* a response reaches a state in which res.write throws
ResponseBreaks(res) ==
    /\ responses[res].connected
    /\ ~responses[res].closed
    /\ ~responses[res].throws
    /\ responses' = [responses EXCEPT ![res].throws = TRUE]
    /\ UNCHANGED <<fmtVars, proxyVars, tailVars, probe, httpClients>>

LoggerNext ==
    \/ \E rec \in LoggerRecords : LoggerWrite(rec)
    \/ \E res \in Responses : AddHttpClient(res)
    \/ \E res \in Responses : RequestClose(res)
    \/ \E res \in Responses : ResponseBreaks(res)

LoggerSpec == Init /\ [][LoggerNext]_vars

(***************************************************************************)
(* A tail session: watch(opts) on one log directory, the timers of         *)
(* streamFile and of the wait states, the termination signal, and the      *)
(* processes that create, append to and remove the files of the directory. *)
(* The timers fire in any order: setInterval gives no order between the    *)
(* content poll and the switch check.                                      *)
(***************************************************************************)
MaxFile == 2     \* atoms one log file holds
MaxClock == 2    \* ms the file system's clock reaches
ReadBufLen == 1  \* atoms one poll reads: readBuf.length, scaled down

FileAtoms == {"ERROR", NL}
FileChunks == UNION {[1..n -> FileAtoms] : n \in 1..MaxFile}

Min(a, b) == IF a <= b THEN a ELSE b

\* the strings the engine writes
Banner(filePath) == "--- watching " \o filePath \o " ---"
WaitingMessage == "Waiting for ilya logs in dir ..."
RemovedMessage == "Log file removed. Waiting for new logs in dir ..."
CannotOpen(filePath) == "Error: cannot open " \o filePath

\* what a callback of the engine reads and writes
Engine ==
    [files |-> files, dirEntries |-> dirEntries, streams |-> streams,
     waitInterval |-> waitInterval,
     out |-> tailStdout, err |-> tailStderr, exitCode |-> exitCode]

Commit(st) ==
    /\ files' = st.files
    /\ dirEntries' = st.dirEntries
    /\ streams' = st.streams
    /\ waitInterval' = st.waitInterval
    /\ tailStdout' = st.out
    /\ tailStderr' = st.err
    /\ exitCode' = st.exitCode

\* the file found by findLatestLog is removed before openSync reaches it
Unlink(dir, name) == [dir EXCEPT ![name].present = FALSE]
Raced(st, name, raced) ==
    IF raced
    THEN [st EXCEPT !.files = Unlink(@, name), !.dirEntries = Without(@, name)]
    ELSE st

\* streamFile(filePath, useColor, autoSwitchDir): the banner, openSync, the
\* initial read, and the timers it sets
streamFile(st, filePath, useColor, auto) ==
    LET banner == IF useColor
                  THEN <<ANSI.DIM, Banner(filePath), ANSI.RESET, NL>>
                  ELSE <<Banner(filePath), NL>>
        file == st.files[filePath]
        initialSize == Len(file.content)
        read == ReadLines(ToStringUtf8(file.content), useColor)
    IN  IF ~file.present
        THEN [st EXCEPT !.out = @ \o banner,
                        !.err = @ \o <<CannotOpen(filePath), NL>>,
                        !.exitCode = "1"]
        ELSE [st EXCEPT
                !.out = @ \o banner \o (IF initialSize > 0 THEN read.out ELSE <<>>),
                !.streams = Append(@,
                    [filePath |-> filePath, useColor |-> useColor, auto |-> auto,
                     fdOpen |-> TRUE, offset |-> initialSize,
                     partial |-> IF initialSize > 0 THEN read.partial ELSE <<>>,
                     pollInterval |-> TRUE, switchCheckInterval |-> auto,
                     closedBy |-> Null])]

\* a closing sequence that leaves the switch check of stream k running
CloseStreamKeepSwitchCheck(st, k, why) ==
    [st EXCEPT !.streams[k] =
        [@ EXCEPT !.pollInterval = FALSE,
                  !.fdOpen = FALSE,
                  !.closedBy = IF @ = Null THEN why ELSE @]]

\* a closing sequence that leaves the content poll of stream k running
CloseStreamKeepPoll(st, k, why) ==
    [st EXCEPT !.streams[k] =
        [@ EXCEPT !.switchCheckInterval = FALSE,
                  !.fdOpen = FALSE,
                  !.closedBy = IF @ = Null THEN why ELSE @]]

\* clearInterval of both timers and closeSync(fd) of stream k; closedBy
\* records which callback did it first
CloseStream(st, k, why) ==
    [st EXCEPT !.streams[k] =
        [@ EXCEPT !.pollInterval = FALSE, !.switchCheckInterval = FALSE,
                  !.fdOpen = FALSE,
                  !.closedBy = IF @ = Null THEN why ELSE @]]

\* handleFileGone(dir, useColor)
handleFileGone(st, raced, useColor) ==
    LET next == findLatestLog(st.files, Listing(TRUE, st.dirEntries))
    IN  IF next # Null
        THEN streamFile(Raced([st EXCEPT !.out = @ \o <<NL>>], next, raced),
                        next, useColor, TRUE)
        ELSE [st EXCEPT !.out = @ \o <<NL, RemovedMessage, NL>>,
                        !.waitInterval = TRUE]

\* watch(opts)
Watch(file, color) ==
    /\ ~opts.watching
    /\ exitCode = Null
    /\ opts' = [watching |-> TRUE, file |-> file, color |-> color]
    /\ IF file # Null
       THEN Commit(streamFile(Engine, file, color, FALSE))
       ELSE \E raced \in BOOLEAN :
                LET logFile == findLatestLog(files, Listing(TRUE, dirEntries))
                IN  IF logFile = Null
                    THEN Commit([Engine EXCEPT !.out = @ \o <<WaitingMessage, NL>>,
                                               !.waitInterval = TRUE])
                    ELSE Commit(streamFile(Raced(Engine, logFile, raced),
                                           logFile, color, TRUE))
    /\ UNCHANGED <<clock, fmtVars, proxyVars, probe, logVars>>

\* the callback of waitInterval, of watch and of handleFileGone
WaitTick ==
    /\ waitInterval
    /\ exitCode = Null
    /\ \E raced \in BOOLEAN :
            LET found == findLatestLog(files, Listing(TRUE, dirEntries))
            IN  IF found # Null
                THEN Commit(streamFile(
                        Raced([Engine EXCEPT !.waitInterval = FALSE,
                                             !.out = @ \o <<NL>>], found, raced),
                        found, opts.color, TRUE))
                ELSE UNCHANGED <<files, dirEntries, streams, waitInterval, tailStdout,
                                 tailStderr, exitCode>>
    /\ UNCHANGED <<clock, opts, fmtVars, proxyVars, probe, logVars>>

\* the callback of pollInterval of stream k; fstatSync may fail once the file
\* was removed.  A stream without autoSwitchDir leaves no timer behind then,
\* and the process ends.
PollTick(k, statFails) ==
    /\ exitCode = Null
    /\ streams[k].pollInterval
    /\ LET s == streams[k]
           file == files[s.filePath]
           currentSize == Len(file.content)
           toRead == Min(currentSize - s.offset, ReadBufLen)
           text == s.partial
                    \o ToStringUtf8(SubSeq(file.content, s.offset + 1, s.offset + toRead))
           read == ReadLines(text, s.useColor)
       IN  IF statFails
           THEN /\ ~file.present
                /\ \E raced \in BOOLEAN :
                    LET closed == CloseStream(Engine, k, "gone")
                    IN  Commit(IF s.auto
                               THEN handleFileGone(closed, raced, s.useColor)
                               ELSE [closed EXCEPT !.exitCode = "0"])
           ELSE IF currentSize <= s.offset
           THEN UNCHANGED <<files, dirEntries, streams, waitInterval, tailStdout,
                            tailStderr, exitCode>>
           ELSE Commit([Engine EXCEPT !.streams[k].offset = @ + toRead,
                                      !.streams[k].partial = read.partial,
                                      !.out = @ \o read.out])
    /\ UNCHANGED <<clock, opts, fmtVars, proxyVars, probe, logVars>>

\* the callback of switchCheckInterval of stream k
SwitchCheckTick(k) ==
    /\ exitCode = Null
    /\ streams[k].switchCheckInterval
    /\ \E raced \in BOOLEAN :
        LET s == streams[k]
            newest == findLatestLog(files, Listing(TRUE, dirEntries))
            flushed == IF s.partial # <<>>
                       THEN colorize(s.partial, s.useColor) \o <<NL>> ELSE <<>>
            closed == [CloseStream(Engine, k, "switch") EXCEPT
                            !.streams[k].partial = <<>>,
                            !.out = @ \o flushed \o <<NL>>]
        IN  IF newest # Null /\ newest # s.filePath
            THEN Commit(streamFile(Raced(closed, newest, raced),
                                   newest, s.useColor, TRUE))
            ELSE UNCHANGED <<files, dirEntries, streams, waitInterval, tailStdout,
                             tailStderr, exitCode>>
    /\ UNCHANGED <<clock, opts, fmtVars, proxyVars, probe, logVars>>

\* SIGINT or SIGTERM: the listeners run in the order streamFile registered
\* them, and the first one, cleanup of the first stream, ends the process;
\* without a listener the signal itself ends it.  The descriptor number the
\* first stream held may have been handed out again by a later openSync, and
\* closeSync(fd) of cleanup then closes the descriptor of that later stream.
SameFd(st, reused) ==
    IF reused
    THEN [st EXCEPT !.streams =
            [k \in DOMAIN @ |-> [@[k] EXCEPT !.fdOpen = FALSE]]]
    ELSE st

Signal ==
    /\ opts.watching
    /\ exitCode = Null
    /\ IF streams # <<>>
       THEN \E reused \in BOOLEAN :
                /\ reused => \E k \in DOMAIN streams : k > 1 /\ streams[k].fdOpen
                /\ Commit([SameFd(CloseStream(Engine, 1, "signal"), reused)
                                EXCEPT !.exitCode = "0"])
       ELSE Commit([Engine EXCEPT !.exitCode = "SIGINT"])
    /\ UNCHANGED <<clock, opts, fmtVars, proxyVars, probe, logVars>>

\* another process creates a file of the directory
CreateFile(name) ==
    /\ exitCode = Null
    /\ ~files[name].created
    /\ files' = [files EXCEPT ![name] =
                    [NoFile EXCEPT !.present = TRUE, !.created = TRUE,
                                   !.mtime = clock]]
    /\ \E i \in 1..(Len(dirEntries) + 1) : dirEntries' = InsertAt(dirEntries, i, name)
    /\ UNCHANGED <<clock, opts, streams, waitInterval, tailStdout, tailStderr,
                   exitCode, fmtVars, proxyVars, probe, logVars>>

\* a proxy's Logger writes to its log file (fileStream.write), which holds
\* at most max bytes
AppendToFile(name, chunk, max) ==
    /\ exitCode = Null
    /\ files[name].present
    /\ Len(files[name].content) + Len(chunk) <= max
    /\ files' = [files EXCEPT ![name].content = @ \o chunk,
                              ![name].mtime = clock]
    /\ UNCHANGED <<dirEntries, clock, opts, streams, waitInterval, tailStdout, tailStderr,
                   exitCode, fmtVars, proxyVars, probe, logVars>>

\* another process removes a file of the directory; its content stays
\* readable through a descriptor that is open on it, and is gone otherwise
RemoveFile(name) ==
    /\ exitCode = Null
    /\ files[name].present
    /\ files' = IF \E k \in DOMAIN streams :
                        streams[k].fdOpen /\ streams[k].filePath = name
                THEN Unlink(files, name)
                ELSE [files EXCEPT ![name] = [NoFile EXCEPT !.created = TRUE]]
    /\ dirEntries' = Without(dirEntries, name)
    /\ UNCHANGED <<clock, opts, streams, waitInterval, tailStdout, tailStderr,
                   exitCode, fmtVars, proxyVars, probe, logVars>>

ClockTick ==
    /\ exitCode = Null
    /\ clock < MaxClock
    /\ clock' = clock + 1
    /\ UNCHANGED <<files, dirEntries, opts, streams, waitInterval, tailStdout,
                   tailStderr, exitCode, fmtVars, proxyVars, probe, logVars>>

TailNext ==
    \/ \E file \in {Null, "a.log"}, color \in BOOLEAN : Watch(file, color)
    \/ WaitTick
    \/ \E k \in DOMAIN streams, statFails \in BOOLEAN : PollTick(k, statFails)
    \/ \E k \in DOMAIN streams : SwitchCheckTick(k)
    \/ Signal
    \/ \E name \in LogNames : CreateFile(name)
    \/ \E name \in LogNames, chunk \in FileChunks : AppendToFile(name, chunk, MaxFile)
    \/ \E name \in LogNames : RemoveFile(name)
    \/ ClockTick

TailSpec == Init /\ [][TailNext]_vars

(***************************************************************************)
(* What the claims speak of: the lines processed, as JSON-RPC messages,    *)
(* and the records each call wrote.                                        *)
(***************************************************************************)
CallIds == DOMAIN calls

RecordsOf(k) == SubSeq(written, calls[k].first, calls[k].first + calls[k].count - 1)
MessageOf(k) == JSONParse(calls[k].json).value

InvalidJson(json) == JSONParse(json).throws
IsObject(json) == ~JSONParse(json).throws /\ JSONParse(json).value.kind = "object"

\* a request with a method name: method (not empty) and id
IsRequestLine(json) ==
    /\ IsObject(json)
    /\ JSONParse(json).value.hasId
    /\ JSONParse(json).value.hasMethod
    /\ JSONParse(json).value.method # ""

\* a response: id present, method absent
IsResponseLine(json) ==
    /\ IsObject(json)
    /\ JSONParse(json).value.hasId
    /\ ~JSONParse(json).value.hasMethod

IsErrorLine(json) == IsResponseLine(json) /\ JSONParse(json).value.error.truthy
IsSuccessLine(json) == IsResponseLine(json) /\ ~JSONParse(json).value.error.truthy

\* the line carries id i
CarriesId(json, i) ==
    IsObject(json) /\ JSONParse(json).value.hasId /\ JSONParse(json).value.id = i

Contains(pieces, piece) == \E p \in DOMAIN pieces : pieces[p] = piece

\* a header record opens with the timestamp, a detail record with four blanks
IsHeader(rec) == rec.plain[1] # "    "
HeaderCount(recs) == Cardinality({p \in DOMAIN recs : IsHeader(recs[p])})

\* the keyword of a header record; "shape" for the record without one
HeaderKind(rec) ==
    IF Len(rec.plain) >= 4 /\ rec.plain[4] \in {"notification", "request", "response", "ERROR", "[raw]"}
    THEN rec.plain[4] ELSE "shape"

IdPiece(i) == "#" \o ToString(i)

\* no line between calls j and k carries id i
NoneBetween(j, k, i) ==
    \A l \in CallIds : (j < l /\ l < k) => ~CarriesId(calls[l].json, i)

(***************************************************************************)
(* The claims.                                                             *)
(***************************************************************************)
EndsWithNewline(data) == data = <<>> \/ data[Len(data)] = NL

\* C1: the proxy forwards traffic unmodified and unfiltered: what startProxy
\* has written to the child's stdin is the concatenation of the chunks read
\* from its own stdin, and what it has written to its stdout is the
\* concatenation of the chunks read from the child's stdout.  Stated at the
\* moments when every line received is complete, so that nothing could be
\* waiting for its newline.
C1_ForwardsUnmodified ==
    /\ EndsWithNewline(stdinData) => childStdin = stdinData
    /\ EndsWithNewline(childStdoutData) => procStdout = childStdoutData

\* C2: a request line with method m and id i followed, with no line carrying
\* id i in between, by a success response with id i gives in order a request
\* record with m and #i, a response record with m, #i and the elapsed time,
\* then the summary formatResult produces for m; afterwards the pending map
\* has no entry for i.
C2_RequestThenResponse ==
    \A j \in CallIds, k \in CallIds :
        LET req == MessageOf(j)
            res == MessageOf(k)
            m == req.method
            i == req.id
        IN  ( /\ j < k
              /\ IsRequestLine(calls[j].json)
              /\ IsSuccessLine(calls[k].json)
              /\ res.id = i
              /\ NoneBetween(j, k, i) )
            => /\ calls[j].count >= 1
               /\ HeaderKind(RecordsOf(j)[1]) = "request"
               /\ Contains(RecordsOf(j)[1].plain, m)
               /\ Contains(RecordsOf(j)[1].plain, IdPiece(i))
               /\ calls[k].count >= 1
               /\ HeaderKind(RecordsOf(k)[1]) = "response"
               /\ Contains(RecordsOf(k)[1].plain, m)
               /\ Contains(RecordsOf(k)[1].plain, IdPiece(i))
               /\ Contains(RecordsOf(k)[1].plain,
                           ToString(calls[k].at - calls[j].at) \o "ms")
               /\ Tail(RecordsOf(k)) = formatResult(m, res.result, colors).written
               /\ i \notin DOMAIN calls[k].after

\* C3: every response line (id present, method absent), success or error,
\* whatever its payload, leaves the pending map without an entry for its id.
C3_ResponseClearsEntry ==
    \A k \in CallIds :
        IsResponseLine(calls[k].json) => MessageOf(k).id \notin DOMAIN calls[k].after

\* C4: a response whose id has no pending entry is handled without raising:
\* its method is rendered as "unknown" and the elapsed time is left out; an
\* error response for such an id writes exactly two records, the ERROR header
\* and the "[<code>] <message>" detail, and the pending map stays as it was.
C4_UnknownIdResponse ==
    \A k \in CallIds :
        LET msg == MessageOf(k)
            recs == RecordsOf(k)
        IN  (IsResponseLine(calls[k].json) /\ msg.id \notin DOMAIN calls[k].before)
            => /\ ~calls[k].raised /\ ~calls[k].caught
               /\ calls[k].after = calls[k].before
               /\ calls[k].count >= 1
               /\ IF msg.error.truthy
                  THEN /\ calls[k].count = 2
                       /\ SubSeq(recs[1].plain, 4, Len(recs[1].plain))
                            = <<"ERROR", "(", "unknown", IdPiece(msg.id), ")", "">>
                       /\ recs[2].plain
                            = <<"    ", "[",
                                IF msg.error.code = "" THEN "?" ELSE msg.error.code, "]",
                                IF msg.error.message = "" THEN "Unknown error"
                                ELSE msg.error.message>>
                  ELSE SubSeq(recs[1].plain, 4, Len(recs[1].plain))
                            = <<"response", "unknown", IdPiece(msg.id), "">>

\* C4 witness: an error response for id 2 was processed while only id 1 was pending
C4_Witness ==
    \E k \in CallIds :
        /\ IsErrorLine(calls[k].json)
        /\ MessageOf(k).id \notin DOMAIN calls[k].before
        /\ calls[k].before # EmptyMap
        /\ calls[k].count = 2

\* C5: formatMessage never throws, whatever the line, the direction and the
\* pending map; a line that is not valid JSON gives exactly one record, marked
\* "[raw]", and the session goes on with the lines that follow: the pending
\* map is as it was and the session has not crashed, which is all that the
\* next call waits for.
C5_NeverThrows ==
    /\ \A json \in Lines, direction \in Directions :
            ~formatMessage(json, direction, pendingRequests, colors, now).raised
    /\ \A k \in CallIds :
            /\ ~calls[k].raised
            /\ InvalidJson(calls[k].json)
                => /\ calls[k].count = 1
                   /\ HeaderKind(RecordsOf(k)[1]) = "[raw]"
                   /\ calls[k].after = calls[k].before
    /\ ~Crashed

\* C5 witness: a line that is not JSON was processed while a request was
\* pending, and gave one "[raw]" record
C5_Witness ==
    \E k \in CallIds :
        /\ InvalidJson(calls[k].json)
        /\ calls[k].before # EmptyMap
        /\ calls[k].count = 1
        /\ Contains(RecordsOf(k)[1].plain, "[raw]")

\* C6: every parsed message is classified by the presence of method and id
\* alone, into exactly one class (notification: method and no id; request:
\* both; response: id and no method; otherwise the shape record), and each
\* line gives exactly one header record, of its class.
C6_ClassifiedByPresence ==
    \A k \in CallIds :
        LET msg == MessageOf(k)
            recs == RecordsOf(k)
        IN  IsObject(calls[k].json)
            => /\ calls[k].count >= 1
               /\ HeaderCount(recs) = 1
               /\ (msg.hasMethod /\ ~msg.hasId) <=> HeaderKind(recs[1]) = "notification"
               /\ (msg.hasMethod /\ msg.hasId) <=> HeaderKind(recs[1]) = "request"
               /\ (msg.hasId /\ ~msg.hasMethod) <=> HeaderKind(recs[1]) \in {"response", "ERROR"}
               /\ (~msg.hasId /\ ~msg.hasMethod) <=> HeaderKind(recs[1]) = "shape"

\* the method a response header names
LabelOf(rec) == IF HeaderKind(rec) = "ERROR" THEN rec.plain[6] ELSE rec.plain[5]

EntryWritten(k, i) ==
    /\ i \in DOMAIN calls[k].after
    /\ i \notin DOMAIN calls[k].before \/ calls[k].after[i] # calls[k].before[i]

DirectionPieces == {<<"->", "<-">>, <<"CLIENT", "SERVER">>, <<ANSI.CYAN, ANSI.GREEN>>}

SameButDirection(a, b) ==
    /\ Len(a) = Len(b)
    /\ \A p \in DOMAIN a : a[p] # b[p] => <<a[p], b[p]>> \in DirectionPieces

\* C9: direction is presentational: for every line and every pending map,
\* formatMessage with direction "client" and with direction "server" gives
\* the same class, the same number of records, the same pending map, and
\* records that differ only in the arrow and the CLIENT/SERVER label (in the
\* styled rendering, also in the colour those two are written in).
C9_DirectionPresentational ==
    \A json \in Lines :
        LET a == formatMessage(json, "client", pendingRequests, colors, now)
            b == formatMessage(json, "server", pendingRequests, colors, now)
        IN  /\ a.pendingRequests = b.pendingRequests
            /\ a.caught = b.caught /\ a.raised = b.raised
            /\ Len(a.written) = Len(b.written)
            /\ \A p \in DOMAIN a.written :
                /\ HeaderKind(a.written[p]) = HeaderKind(b.written[p])
                /\ SameButDirection(a.written[p].plain, b.written[p].plain)
                /\ SameButDirection(a.written[p].colored, b.written[p].colored)
                /\ IsHeader(a.written[p])
                    => /\ a.written[p].plain[2] = "->" /\ b.written[p].plain[2] = "<-"
                       /\ a.written[p].plain[3] = "CLIENT"
                       /\ b.written[p].plain[3] = "SERVER"

\* C9 witness: a request was processed with direction "server" while another
\* id was pending; with direction "client" the same line leaves the same map
C9_Witness ==
    \E k \in CallIds :
        /\ calls[k].direction = "server"
        /\ IsRequestLine(calls[k].json)
        /\ calls[k].before # EmptyMap
        /\ calls[k].after # calls[k].before
        /\ formatMessage(calls[k].json, "client", calls[k].before, colors,
                         calls[k].at).pendingRequests = calls[k].after

(***************************************************************************)
(* The tail session's display, stream by stream: streamFile writes a       *)
(* banner before it opens its file, so what stream k wrote lies between    *)
(* the k-th banner line and the next one.                                  *)
(***************************************************************************)
Strip(text) == SelectSeq(text, LAMBDA a : a \notin AnsiAtoms)

IsBanner(a) == a \in {Banner(name) : name \in FileNames}

BannerPositions(text) ==
    SelectSeq([i \in 1..Len(text) |-> i], LAMBDA i : IsBanner(text[i]))

\* the text, colors removed, that follows the k-th banner line up to the next
Shown(text, k) ==
    LET plain == Strip(text)
        pos == BannerPositions(plain)
    IN  SubSeq(plain, pos[k] + 2,
               IF k < Len(pos) THEN pos[k + 1] - 1 ELSE Len(plain))

\* a text with its last line ended
Terminated(text) ==
    IF text = <<>> \/ text[Len(text)] = NL THEN text ELSE Append(text, NL)

\* the step in which the switch check of stream k moves to a newer file
SwitchStep(k) ==
    /\ streams[k].closedBy = Null
    /\ streams'[k].closedBy = "switch"

\* C10: when the switch check moves from the current target to a newer file,
\* the display holds, after the old target's banner line and before the blank
\* line and the banner of the new target, every byte the old target held at
\* that moment: its complete lines and its final partial line.
C10_SwitchDropsNothing ==
    [][\A k \in DOMAIN streams :
            SwitchStep(k) =>
                Shown(tailStdout', k)
                    = Terminated(files[streams[k].filePath].content) \o <<NL>>]_vars

(***************************************************************************)
(* findLatestLog called on its own, on every directory of up to three      *)
(* entries: each entry absent or present, with a modification time from 0  *)
(* (the epoch) on, a symbolic link whose target is gone or not, and the    *)
(* entries enumerated in every order.                                      *)
(***************************************************************************)
FindFiles ==
    {NoFile} \cup
    {[NoFile EXCEPT !.present = TRUE, !.created = TRUE, !.mtime = m, !.dangling = g] :
        m \in 0..MaxClock, g \in BOOLEAN}

Orders(dir) ==
    LET names == {name \in DOMAIN dir : dir[name].present}
    IN  {order \in [1..Cardinality(names) -> names] :
            \A i, j \in DOMAIN order : i # j => order[i] # order[j]}

FindInputs ==
    UNION {{[fn |-> "findLatestLog", present |-> present, dir |-> dir,
             entries |-> entries, done |-> FALSE, out |-> Null] :
                present \in BOOLEAN, entries \in Orders(dir)} :
           dir \in [FileNames -> FindFiles]}

FindInit == InitButProbe /\ probe \in FindInputs

FindLatestLogCall ==
    /\ probe.fn = "findLatestLog"
    /\ ~probe.done
    /\ probe' = [probe EXCEPT
                    !.done = TRUE,
                    !.out = findLatestLog(probe.dir,
                                          Listing(probe.present, probe.entries))]
    /\ UNCHANGED <<fmtVars, proxyVars, tailVars, logVars>>

FindNext == FindLatestLogCall

FindSpec == FindInit /\ [][FindNext]_vars

\* the entries of the probed directory whose name ends in ".log"
LogEntries ==
    IF probe.present
    THEN {name \in FileNames : probe.dir[name].present /\ EndsWithLog(name)}
    ELSE {}

\* C11: findLatestLog returns an entry whose name ends in ".log" and whose
\* modification time is greatest among such entries, whatever the names and
\* the enumeration order, and returns none exactly when the directory is
\* absent, empty, or holds no entry ending in ".log".
C11_FindLatestLog ==
    (probe.fn = "findLatestLog" /\ probe.done) =>
        /\ (probe.out = Null) <=> (LogEntries = {})
        /\ probe.out # Null =>
            /\ probe.out \in LogEntries
            /\ \A name \in LogEntries :
                    probe.dir[name].mtime <= probe.dir[probe.out].mtime

\* no timer of the tail is pending and no descriptor is open
AllReleased ==
    /\ ~waitInterval
    /\ \A k \in DOMAIN streams :
            /\ ~streams[k].pollInterval
            /\ ~streams[k].switchCheckInterval
            /\ ~streams[k].fdOpen

\* C12: on SIGINT or SIGTERM in any state, after switches and recoveries
\* from a removed file too, every outstanding timer (content poll, switch
\* check, directory wait) is stopped and the open file handle is released
\* before the process exits.
C12_SignalReleasesAll == [][Signal => AllReleased']_vars

\* C13: no file or directory access failure terminates the tail process: a
\* target removed mid-stream or a discovered file that can no longer be
\* opened leads to a wait or re-discovery state.  Stated for the sessions
\* that discover their target in the directory: they end by a signal only.
C13_AccessFailureNeverExits ==
    [][(exitCode = Null /\ exitCode' # Null /\ opts'.file = Null) => Signal]_vars

\* stream k holds a descriptor or a timer
Active(k) ==
    \/ streams[k].fdOpen
    \/ streams[k].pollInterval
    \/ streams[k].switchCheckInterval

\* C14: at every instant of a tail session there is at most one active
\* target: at most one open file handle, one content-poll timer and one
\* switch-check timer, all of the same target, and the directory-wait timer
\* is active only when no target is open.
C14_OneActiveTarget ==
    /\ \A j, k \in DOMAIN streams : (Active(j) /\ Active(k)) => j = k
    /\ waitInterval => \A k \in DOMAIN streams : ~Active(k)

\* the session has moved to a later target, or waits after its target went
C14_Witness ==
    /\ exitCode = Null
    /\ Len(streams) >= 2
    /\ \/ Active(Len(streams))
       \/ waitInterval

\* the complete lines of a text
CompleteLines(text) ==
    LET lines == Split(text, <<>>, <<>>)
    IN  {lines[i] : i \in 1..(Len(lines) - 1)}

\* a text made of whole lines only
WholeLines(text) == text = <<>> \/ text[Len(text)] = NL

\* C15: logging never interferes with the protocol stream: the proxy writes
\* to its own stdout only lines received from the child's stdout, and to the
\* child's stdin only lines received from the client; no log record, no
\* passthrough of the child's stderr and no status message reaches either.
C15_LogsStayOffTheStream ==
    /\ WholeLines(procStdout)
    /\ CompleteLines(procStdout) \subseteq CompleteLines(childStdoutData)
    /\ WholeLines(childStdin)
    /\ CompleteLines(childStdin) \subseteq CompleteLines(stdinData)

\* both directions have carried a line while the child's stderr was passed
\* through and a status message was logged
C15_Witness ==
    /\ procStdout # <<>>
    /\ childStdin # <<>>
    /\ \E k \in DOMAIN written : written[k].plain = <<"[server stderr]", "warn">>
    /\ \E k \in DOMAIN written : written[k] = EpipeStatus

\* the subscribers whose write throws
Failing == {res \in httpClients : responses[res].throws}

\* C16: when the fan-out write to one HTTP subscriber fails in Logger.write,
\* that subscriber is removed from the set, the plain line is still
\* persisted, every other subscriber still receives the line, and the
\* subscriber that failed receives no later line.
C16_FailedSubscriberDropped ==
    [][/\ written' # written =>
            LET rec == written'[Len(written')]
            IN  /\ written' = Append(written, rec)
                /\ httpClients' = httpClients \ Failing
                /\ \A res \in httpClients \ Failing :
                        responses'[res].body = responses[res].body \o rec.plain \o <<NL>>
                /\ \A res \in Failing : responses'[res].body = responses[res].body
       /\ \A res \in Responses :
            (responses[res].connected /\ res \notin httpClients) =>
                /\ res \notin httpClients'
                /\ responses'[res].body = responses[res].body]_vars

\* a subscriber was dropped by a failed write while another one went on
\* receiving
C16_Witness ==
    \E failed, other \in Responses :
        /\ responses[failed].throws
        /\ ~responses[failed].closed
        /\ failed \notin httpClients
        /\ other \in httpClients
        /\ Len(responses[other].body) > Len(responses[failed].body)
        /\ Len(responses[failed].body) > 3
        /\ Len(written) = MaxWrites

(***************************************************************************)
(* The default paths: the Logger's constructor and parseWatchArgs, each    *)
(* called on its own.  A path is the sequence of its segments, a command   *)
(* or a file name a sequence of atoms.                                     *)
(***************************************************************************)
DEFAULT_LOG_DIR == <<"~", ".ilya", "logs">>

\* the body of the loop of parseWatchArgs, from index i on
RECURSIVE ParseArgsFrom(_, _, _)
ParseArgsFrom(args, i, o) ==
    IF i > Len(args) \/ o.exit # Null THEN o
    ELSE IF args[i] = "--dir" /\ i + 1 <= Len(args)
    THEN ParseArgsFrom(args, i + 2, [o EXCEPT !.dir = <<args[i + 1]>>])
    ELSE IF args[i] = "--file" /\ i + 1 <= Len(args)
    THEN ParseArgsFrom(args, i + 2, [o EXCEPT !.file = args[i + 1]])
    ELSE IF args[i] = "--no-color"
    THEN ParseArgsFrom(args, i + 1, [o EXCEPT !.color = FALSE])
    ELSE IF args[i] \in {"--help", "-h"}
    THEN ParseArgsFrom(args, i + 1, [o EXCEPT !.exit = "0"])
    ELSE ParseArgsFrom(args, i + 1, o)

parseWatchArgs(args) ==
    ParseArgsFrom(args, 1,
        [parsed |-> TRUE, dir |-> DEFAULT_LOG_DIR, file |-> Null, color |-> TRUE,
         exit |-> Null])

\* Logger's constructor: this.logFilePath; an option that is absent or empty
\* is the empty path
LogFilePath(logFilePath, serverCmd, pid) ==
    LET slashes == {i \in DOMAIN serverCmd : serverCmd[i] = "/"}
        from == IF slashes = {} THEN 1
                ELSE (CHOOSE i \in slashes : \A j \in slashes : j <= i) + 1
        basename == SubSeq(serverCmd, from, Len(serverCmd))
        dots == {i \in DOMAIN basename : basename[i] = "."}
        lastDot == IF dots = {} THEN 0 ELSE CHOOSE i \in dots : \A j \in dots : j <= i
        serverName == IF lastDot = 0 \/ lastDot = Len(basename) THEN basename
                      ELSE SubSeq(basename, 1, lastDot - 1)
        logDir == <<"~", ".mcp-tap", "logs">>
    IN  IF logFilePath # <<>> THEN logFilePath
        ELSE Append(logDir, serverName \o <<"-", ToString(pid), ".log">>)

\* the commands, process ids and arguments of the probes
ServerCmds == {<<"node">>, <<".", "/", "my-binary">>, <<"/", "opt", "/", "server", ".", "ts">>}
Pids == 1..3
WatchArgs == {"--dir", "/tmp/my-logs", "--file", "--no-color", "-h"}
NoLogger == [constructed |-> FALSE, logFilePath |-> <<>>]
NoWatchOptions ==
    [parsed |-> FALSE, dir |-> <<>>, file |-> Null, color |-> TRUE, exit |-> Null]
PathInputs ==
    {[fn |-> "paths", logFilePath |-> l, serverCmd |-> cmd, pid |-> pid, args |-> args,
      logger |-> NoLogger, opts |-> NoWatchOptions] :
        l \in {<<>>, <<"/tmp", "out.log">>}, cmd \in ServerCmds, pid \in Pids,
        args \in UNION {[1..n -> WatchArgs] : n \in 0..2}}

PathInit == InitButProbe /\ probe \in PathInputs

\* new Logger({logFilePath, isTTY, serverCmd})
NewLogger ==
    /\ probe.fn = "paths"
    /\ ~probe.logger.constructed
    /\ probe' = [probe EXCEPT
            !.logger = [constructed |-> TRUE,
                        logFilePath |->
                            LogFilePath(probe.logFilePath, probe.serverCmd, probe.pid)]]
    /\ UNCHANGED <<fmtVars, proxyVars, tailVars, logVars>>

\* parseWatchArgs(args)
ParseWatchArgsCall ==
    /\ probe.fn = "paths"
    /\ ~probe.opts.parsed
    /\ probe' = [probe EXCEPT !.opts = parseWatchArgs(probe.args)]
    /\ UNCHANGED <<fmtVars, proxyVars, tailVars, logVars>>

PathNext ==
    \/ NewLogger
    \/ ParseWatchArgsCall

PathSpec == PathInit /\ [][PathNext]_vars

\* the directory of a path
DirOf(path) == SubSeq(path, 1, Len(path) - 1)

\* C17: with default options the proxy writes its log to
\* ~/.ilya/logs/<server>-<pid>.log, in the directory `ilya watch` scans by
\* default, so that a watcher started with defaults finds the log of a
\* proxy started with defaults.
C17_DefaultsMeet ==
    (/\ probe.fn = "paths"
     /\ probe.logger.constructed
     /\ probe.opts.parsed
     /\ probe.logFilePath = <<>>
     /\ probe.args = <<>>) =>
        /\ DirOf(probe.logger.logFilePath) = <<"~", ".ilya", "logs">>
        /\ DirOf(probe.logger.logFilePath) = probe.opts.dir

(***************************************************************************)
(* formatResult and tryFormatJson, each called on its own.                 *)
(***************************************************************************)
MaxItems == 10   \* items in a list result

\* a list of n items; item p, if any, has no name
ItemsOf(n, p) ==
    [k \in 1..n |-> IF k = p THEN Item("", "uri:" \o ToString(k))
                              ELSE Item("n" \o ToString(k), "uri:" \o ToString(k))]

ListMethods == {"tools/list", "resources/list", "prompts/list"}

ListResult(method, items) ==
    CASE method = "tools/list" -> [EmptyObject EXCEPT !.tools = Array(items)]
      [] method = "resources/list" -> [EmptyObject EXCEPT !.resources = Array(items)]
      [] method = "prompts/list" -> [EmptyObject EXCEPT !.prompts = Array(items)]

\* the texts of the probes: invalid JSON, the primitives, an array, an object
Texts ==
    {PlainText(<<"hello", "world">>),
     PlainText(<<"">>),
     JsonText("number", <<"42">>, <<"42">>),
     JsonText("string", <<"\"str\"">>, <<"\"str\"">>),
     JsonText("boolean", <<"true">>, <<"true">>),
     JsonText("null", <<"null">>, <<"null">>),
     JsonText("array", <<"[1,", "2]">>, <<"[", "  1,", "  2", "]">>),
     JsonText("array", <<"[]">>, <<"[]">>),
     JsonText("object", <<"{\"a\":1}">>, <<"{", "  \"a\": 1", "}">>)}

TextCallResult(text, isError) ==
    [EmptyObject EXCEPT !.content = Array(<<Block("text", text, <<>>)>>),
                        !.isError = isError]

ResultProbe(fn, method, result, text) ==
    [fn |-> fn, method |-> method, result |-> result, text |-> text,
     done |-> FALSE, out |-> Done(<<>>), formatted |-> <<>>]

ResultInputs ==
    {ResultProbe("formatResult", method, ListResult(method, ItemsOf(n, p)), NoText) :
        method \in ListMethods, n \in 0..MaxItems, p \in 0..MaxItems}
    \cup {ResultProbe("formatResult", "tools/call", TextCallResult(text, isError), text) :
        text \in Texts \cup {NoText}, isError \in BOOLEAN}
    \cup {ResultProbe("tryFormatJson", "", Undefined, text) : text \in Texts \cup {NoText}}

ResultInit == InitButProbe /\ probe \in ResultInputs

\* formatResult(method, result, pending, ctx)
FormatResultCall ==
    /\ probe.fn = "formatResult"
    /\ ~probe.done
    /\ probe' = [probe EXCEPT !.done = TRUE,
                              !.out = formatResult(probe.method, probe.result, colors)]
    /\ UNCHANGED <<fmtVars, proxyVars, tailVars, logVars>>

\* tryFormatJson(text)
TryFormatJsonCall ==
    /\ probe.fn = "tryFormatJson"
    /\ ~probe.done
    /\ probe' = [probe EXCEPT !.done = TRUE, !.formatted = tryFormatJson(probe.text)]
    /\ UNCHANGED <<fmtVars, proxyVars, tailVars, logVars>>

ResultNext ==
    \/ FormatResultCall
    \/ TryFormatJsonCall

ResultSpec == ResultInit /\ [][ResultNext]_vars

\* the list a list-method probe was called with
ProbedItems ==
    CASE probe.method = "tools/list" -> probe.result.tools.items
      [] probe.method = "resources/list" -> probe.result.resources.items
      [] probe.method = "prompts/list" -> probe.result.prompts.items
      [] OTHER -> <<>>

\* the name item k contributes: a resource without a name gives its uri
ShownName(k) ==
    IF probe.method = "resources/list" /\ ProbedItems[k].name = ""
    THEN ProbedItems[k].uri ELSE ProbedItems[k].name

KindOf(method) ==
    CASE method = "tools/list" -> "tools:"
      [] method = "resources/list" -> "resources:"
      [] method = "prompts/list" -> "prompts:"

WrittenAsPlainText ==
    LET lines == probe.text.lines
        recs == probe.out.written
    IN  /\ ~probe.out.threw
        /\ Len(recs) = Len(lines) + (IF probe.result.isError THEN 1 ELSE 0)
        /\ \A k \in DOMAIN lines : recs[k].plain = <<"    ", "[text]", lines[k]>>

\* a finished call of formatResult on a tools/call result with one text block
TextCallDone ==
    /\ probe.fn = "formatResult"
    /\ probe.done
    /\ probe.method = "tools/call"
    /\ probe.text.isString

C20_TryFormatJson ==
    (probe.fn = "tryFormatJson" /\ probe.done) =>
        IF probe.text.value \in {"object", "array"}
        THEN probe.formatted = probe.text.json /\ probe.formatted # <<>>
        ELSE probe.formatted = <<>>

\* tryFormatJson was called on a JSON array of two elements
C20_Witness ==
    /\ probe.fn = "tryFormatJson"
    /\ probe.done
    /\ probe.text.value = "array"
    /\ Len(probe.formatted) = 4

(***************************************************************************)
(* formatResult on results that lack the field their method is summarised  *)
(* from.                                                                    *)
(***************************************************************************)
ShapeMethods ==
    {"tools/list", "resources/list", "prompts/list", "tools/call", "initialize"}

\* an object with none of the five fields usable, stringified as json
Shaped(json) == [EmptyObject EXCEPT !.json = json]

\* the same with a capabilities value that is no object
ShapedCapabilities(truthy, kind, keys, json) ==
    [EmptyObject EXCEPT
        !.capabilities = [truthy |-> truthy, kind |-> kind, keys |-> keys],
        !.json = json]

\* {}, {"other":1}, fields of a wrong type, capabilities true, "ab", 0 and
\* null, and objects of 300 and of 302 characters
ShapeResults ==
    {EmptyObject,
     Shaped(<<"{", "\"other\":1", "}">>),
     Shaped(<<"{", "\"tools\":\"x\",", "\"resources\":{},", "\"prompts\":5,",
              "\"content\":\"text\"", "}">>),
     ShapedCapabilities(TRUE, "boolean", <<>>, <<"{", "\"capabilities\":true", "}">>),
     ShapedCapabilities(TRUE, "string", <<"0", "1">>,
                        <<"{", "\"capabilities\":\"ab\"", "}">>),
     ShapedCapabilities(FALSE, "number", <<>>, <<"{", "\"capabilities\":0", "}">>),
     ShapedCapabilities(FALSE, "null", <<>>, <<"{", "\"capabilities\":null", "}">>),
     Shaped(<<"{", "\"content\":{}", "}">>),
     Shaped(<<"{", "\"tools\":null", "}">>),
     Shaped(<<"{">> \o [k \in 1..298 |-> "x"] \o <<"}">>),
     Shaped(<<"{">> \o [k \in 1..300 |-> "x"] \o <<"}">>)}

ShapeInputs ==
    {ResultProbe("formatResult", method, result, NoText) :
        method \in ShapeMethods, result \in ShapeResults}

ShapeInit == InitButProbe /\ probe \in ShapeInputs

ShapeNext == FormatResultCall

ShapeSpec == ShapeInit /\ [][ShapeNext]_vars

\* the field the probed method is summarised from is absent or of another
\* type than the array or object the summary needs
ExpectedFieldMissing ==
    CASE probe.method = "tools/list" -> ~probe.result.tools.isArray
      [] probe.method = "resources/list" -> ~probe.result.resources.isArray
      [] probe.method = "prompts/list" -> ~probe.result.prompts.isArray
      [] probe.method = "tools/call" -> ~probe.result.content.isArray
      [] probe.method = "initialize" -> probe.result.capabilities.kind # "object"
      [] OTHER -> FALSE

\* what was written is the generic summary of the probed result: nothing for
\* a stringified form of at most 2 characters, otherwise one record holding
\* the stringified result, cut to 297 characters and "..." when it is longer
\* than 300
WroteGenericSummary ==
    LET raw == probe.result.json
        recs == probe.out.written
    IN  IF Len(raw) <= 2 THEN recs = <<>>
        ELSE /\ Len(recs) = 1
             /\ recs[1].plain[1] = "    "
             /\ IF Len(raw) <= 300
                THEN Tail(recs[1].plain) = raw
                ELSE /\ Len(recs[1].plain) = 301
                     /\ SubSeq(recs[1].plain, 2, 298) = SubSeq(raw, 1, 297)
                     /\ SubSeq(recs[1].plain, 299, 301) = <<".", ".", ".">>

\* C21: for each of tools/list, resources/list, prompts/list, tools/call and
\* initialize, a result whose expected field (the tools / resources /
\* prompts / content array, the capabilities object) is absent or of the
\* wrong type makes formatResult return without throwing and write the
\* generic summary: the stringified result truncated to 300 characters.
C21_ShapeMismatchIsGeneric ==
    (probe.fn = "formatResult" /\ probe.done /\ probe.method \in ShapeMethods
        /\ ExpectedFieldMissing) =>
        /\ ~probe.out.threw
        /\ WroteGenericSummary

\* the part of C21 the code keeps: a mismatched result never throws, and
\* every mismatch but a truthy capabilities value gets the generic summary
C21_MismatchNeverThrows ==
    (probe.fn = "formatResult" /\ probe.done /\ probe.method \in ShapeMethods
        /\ ExpectedFieldMissing) =>
        /\ ~probe.out.threw
        /\ ~(probe.method = "initialize" /\ probe.result.capabilities.truthy)
              => WroteGenericSummary

(***************************************************************************)
(* Parsed JSON values, and the three passes tryFormatJson runs over them.  *)
(* A string is the sequence of its characters; an object is the sequence   *)
(* of its keys, in the order Object.entries gives them, and of their       *)
(* values.                                                                 *)
(***************************************************************************)
JValue(kind, str, keys, items) ==
    [kind |-> kind, str |-> str, keys |-> keys, items |-> items]
JNull == JValue("null", <<>>, <<>>, <<>>)
JNumber(n) == JValue("number", <<ToString(n)>>, <<>>, <<>>)
JString(str) == JValue("string", str, <<>>, <<>>)
JArray(items) == JValue("array", <<>>, <<>>, items)
JObject(keys, items) == JValue("object", <<>>, keys, items)

\* result[key] = value on an object literal: an assignment to the key
\* __proto__ reaches the setter of Object.prototype and adds no property
SetProperty(result, key, value) ==
    IF key = "__proto__" THEN result
    ELSE JObject(Append(result.keys, key), Append(result.items, value))

\* `... +${n} more`
Marker(n) ==
    JString(<<".", ".", ".", " ", "+", ToString(n), " ", "m", "o", "r", "e">>)

\* a truncateArrays that shortens the array it is given and goes no deeper
TruncateArraysTopOnly(obj, maxItems) ==
    IF obj.kind = "array" /\ Len(obj.items) > maxItems
    THEN JArray(Append(Slice(obj.items, 0, maxItems),
                       Marker(Len(obj.items) - maxItems)))
    ELSE obj

RECURSIVE truncateArrays(_, _)
RECURSIVE TruncateArraysEntries(_, _, _, _)

\* truncateArrays(obj, maxItems)
truncateArrays(obj, maxItems) ==
    IF obj.kind = "array" THEN
        LET kept == Slice(obj.items, 0, maxItems)
        IN  JArray([k \in DOMAIN kept |-> truncateArrays(kept[k], maxItems)]
                   \o (IF Len(obj.items) > maxItems
                       THEN <<Marker(Len(obj.items) - maxItems)>> ELSE <<>>))
    ELSE IF obj.kind = "object" THEN
        TruncateArraysEntries(obj, 1, JObject(<<>>, <<>>), maxItems)
    ELSE obj

\* the loop of truncateArrays over Object.entries(obj), from entry k on
TruncateArraysEntries(obj, k, result, maxItems) ==
    IF k > Len(obj.keys) THEN result
    ELSE TruncateArraysEntries(obj, k + 1,
            SetProperty(result, obj.keys[k], truncateArrays(obj.items[k], maxItems)),
            maxItems)

RECURSIVE truncateStringValues(_, _)
RECURSIVE TruncateStringEntries(_, _, _, _)

\* truncateStringValues(obj, maxLen)
truncateStringValues(obj, maxLen) ==
    IF obj.kind = "string" THEN
        IF Len(obj.str) > maxLen
        THEN JString(Slice(obj.str, 0, maxLen - 3) \o <<".", ".", ".">>)
        ELSE obj
    ELSE IF obj.kind = "array" THEN
        JArray([k \in DOMAIN obj.items |-> truncateStringValues(obj.items[k], maxLen)])
    ELSE IF obj.kind = "object" THEN
        TruncateStringEntries(obj, 1, JObject(<<>>, <<>>), maxLen)
    ELSE obj

\* the loop of truncateStringValues over Object.entries(obj), from entry k on
TruncateStringEntries(obj, k, result, maxLen) ==
    IF k > Len(obj.keys) THEN result
    ELSE TruncateStringEntries(obj, k + 1,
            SetProperty(result, obj.keys[k],
                        truncateStringValues(obj.items[k], maxLen)),
            maxLen)

NOISE_FIELDS == {"id", "timestamp"}

\* Object.keys(value).length, for a value with typeof value === "object"
ObjectKeysLength(value) ==
    IF value.kind = "array" THEN Len(value.items) ELSE Len(value.keys)

\* the two `continue` conditions of removeNoiseFields
IsNoise(key, value, insideArray) ==
    \/ insideArray /\ key \in NOISE_FIELDS
    \/ /\ insideArray
       /\ key = "graphql"
       /\ value.kind \in {"object", "array"}
       /\ ObjectKeysLength(value) = 0

RECURSIVE removeNoiseFields(_, _)
RECURSIVE RemoveNoiseEntries(_, _, _, _)

\* removeNoiseFields(obj, insideArray)
removeNoiseFields(obj, insideArray) ==
    IF obj.kind = "array" THEN
        JArray([k \in DOMAIN obj.items |-> removeNoiseFields(obj.items[k], TRUE)])
    ELSE IF obj.kind = "object" THEN
        RemoveNoiseEntries(obj, 1, JObject(<<>>, <<>>), insideArray)
    ELSE obj

\* the loop of removeNoiseFields over Object.entries(obj), from entry k on
RemoveNoiseEntries(obj, k, result, insideArray) ==
    IF k > Len(obj.keys) THEN result
    ELSE IF IsNoise(obj.keys[k], obj.items[k], insideArray)
    THEN RemoveNoiseEntries(obj, k + 1, result, insideArray)
    ELSE RemoveNoiseEntries(obj, k + 1,
            SetProperty(result, obj.keys[k], removeNoiseFields(obj.items[k], FALSE)),
            insideArray)

(***************************************************************************)
(* truncateArrays, truncateStringValues, removeNoiseFields and truncate,   *)
(* each called on its own.                                                 *)
(***************************************************************************)
MaxArray == 4    \* elements of an array of numbers and strings
MaxNested == 2   \* elements of an array of arrays and objects
MaxString == 6   \* characters of a string

Letters == <<"a", "b", "c", "d", "e", "f">>
LongString == JString(SubSeq(Letters, 1, 5))

\* arrays of up to MaxArray numbers and strings
FlatArrays ==
    {JArray(items) :
        items \in UNION {[1..n -> {JNumber(1), LongString}] : n \in 0..MaxArray}}

FourNumbers == JArray([k \in 1..4 |-> JNumber(k)])
EmptyJObject == JObject(<<>>, <<>>)

\* objects with and without the keys removeNoiseFields looks for
SampleObjects ==
    {EmptyJObject,
     JObject(<<"id", "name", "timestamp">>,
             <<JString(<<"1">>), LongString, JString(<<"t">>)>>),
     JObject(<<"name", "graphql">>, <<JString(<<"r">>), EmptyJObject>>),
     JObject(<<"name", "graphql">>, <<JString(<<"r">>), JArray(<<>>)>>),
     JObject(<<"name", "graphql">>,
             <<JString(<<"r">>), JObject(<<"query">>, <<LongString>>)>>),
     JObject(<<"graphql">>, <<JNull>>),
     JObject(<<"__proto__", "name">>, <<FourNumbers, JString(<<"r">>)>>),
     JObject(<<"id", "list">>, <<JNumber(7), FourNumbers>>),
     JObject(<<"data">>,
             <<JObject(<<"id", "items">>,
                       <<JString(<<"k">>),
                         JArray(<<JObject(<<"id">>, <<JString(<<"r">>)>>)>>)>>)>>)}

\* arrays of up to MaxNested arrays and objects
NestedArrays ==
    {JArray(items) :
        items \in UNION {[1..n -> SampleObjects \cup {FourNumbers, JArray(<<>>)}] :
                            n \in 1..MaxNested}}

Trees ==
    {JNull, JNumber(1), LongString, JString(<<>>)}
        \cup FlatArrays \cup SampleObjects \cup NestedArrays

\* strings of up to MaxString characters: the letters, over again when they
\* run out
Strings ==
    {[k \in 1..n |-> Letters[((k - 1) % Len(Letters)) + 1]] : n \in 0..MaxString}

TreeProbe(fn, value, n, insideArray) ==
    [fn |-> fn, value |-> value, n |-> n, insideArray |-> insideArray,
     done |-> FALSE, out |-> JNull]

\* maxItems and maxLen run from -1 up
TreeInputs ==
    {TreeProbe("truncateArrays", value, n, FALSE) :
        value \in Trees, n \in (0 - 1)..MaxArray}
    \cup {TreeProbe("truncateStringValues", value, n, FALSE) :
        value \in Trees, n \in (0 - 1)..MaxString}
    \cup {TreeProbe("removeNoiseFields", value, 0, insideArray) :
        value \in Trees, insideArray \in BOOLEAN}
    \cup {TreeProbe("truncate", JString(str), n, FALSE) :
        str \in Strings, n \in (0 - 1)..MaxString}

TreeInit == InitButProbe /\ probe \in TreeInputs

\* truncateArrays(obj, maxItems)
TruncateArraysCall ==
    /\ probe.fn = "truncateArrays"
    /\ ~probe.done
    /\ probe' = [probe EXCEPT !.done = TRUE,
                              !.out = truncateArrays(probe.value, probe.n)]
    /\ UNCHANGED <<fmtVars, proxyVars, tailVars, logVars>>

\* truncateStringValues(obj, maxLen)
TruncateStringValuesCall ==
    /\ probe.fn = "truncateStringValues"
    /\ ~probe.done
    /\ probe' = [probe EXCEPT !.done = TRUE,
                              !.out = truncateStringValues(probe.value, probe.n)]
    /\ UNCHANGED <<fmtVars, proxyVars, tailVars, logVars>>

\* removeNoiseFields(obj, insideArray)
RemoveNoiseFieldsCall ==
    /\ probe.fn = "removeNoiseFields"
    /\ ~probe.done
    /\ probe' = [probe EXCEPT !.done = TRUE,
                    !.out = removeNoiseFields(probe.value, probe.insideArray)]
    /\ UNCHANGED <<fmtVars, proxyVars, tailVars, logVars>>

\* truncate(str, max)
TruncateCall ==
    /\ probe.fn = "truncate"
    /\ ~probe.done
    /\ probe' = [probe EXCEPT !.done = TRUE,
                              !.out = JString(Truncate(probe.value.str, probe.n))]
    /\ UNCHANGED <<fmtVars, proxyVars, tailVars, logVars>>

TreeNext ==
    \/ TruncateArraysCall
    \/ TruncateStringValuesCall
    \/ RemoveNoiseFieldsCall
    \/ TruncateCall

TreeSpec == TreeInit /\ [][TreeNext]_vars

RECURSIVE ArraysAtMost(_, _)
\* every array of the value, at every depth, has at most n elements
ArraysAtMost(value, n) ==
    /\ value.kind = "array" => Len(value.items) <= n
    /\ \A k \in DOMAIN value.items : ArraysAtMost(value.items[k], n)

RECURSIVE Shortened(_, _, _)
\* out is value with its arrays shortened to n elements: an array of more
\* than n elements keeps its first n, shortened in turn, and ends with the
\* marker of the number left out; an array of at most n elements keeps its
\* elements, shortened in turn, and gets no marker; a key of an object of
\* out holds the shortened value of that key
Shortened(value, out, n) ==
    IF value.kind = "array" THEN
        /\ out.kind = "array"
        /\ IF Len(value.items) > n
           THEN /\ Len(out.items) = n + 1
                /\ out.items[n + 1] = Marker(Len(value.items) - n)
                /\ \A k \in 1..n : Shortened(value.items[k], out.items[k], n)
           ELSE /\ Len(out.items) = Len(value.items)
                /\ \A k \in DOMAIN out.items :
                        Shortened(value.items[k], out.items[k], n)
    ELSE IF value.kind = "object" THEN
        /\ out.kind = "object"
        /\ \A j \in DOMAIN out.keys :
            \E k \in DOMAIN value.keys :
                /\ value.keys[k] = out.keys[j]
                /\ Shortened(value.items[k], out.items[j], n)
    ELSE out = value

TruncateArraysDone == probe.fn = "truncateArrays" /\ probe.done

\* C22 as stated: for every JSON value and every maxItems, every array in
\* the output of truncateArrays has at most maxItems + 1 elements at every
\* depth, an array of more than maxItems elements ends with one marker
\* whose number is its length minus maxItems, and an array of at most
\* maxItems elements gets no marker.
C22_TruncateArraysAnyMax ==
    TruncateArraysDone =>
        /\ ArraysAtMost(probe.out, probe.n + 1)
        /\ Shortened(probe.value, probe.out, probe.n)

\* C22, amended: the same for every maxItems >= 0.
C22_TruncateArrays ==
    (TruncateArraysDone /\ probe.n >= 0) =>
        /\ ArraysAtMost(probe.out, probe.n + 1)
        /\ Shortened(probe.value, probe.out, probe.n)

\* an array of two elements, cut to one, whose first element is an object
\* holding an array of four that is cut as well
C22_Witness ==
    /\ TruncateArraysDone
    /\ probe.n = 1
    /\ probe.value.kind = "array"
    /\ Len(probe.value.items) = 2
    /\ probe.value.items[1] = JObject(<<"id", "list">>, <<JNumber(7), FourNumbers>>)
    /\ probe.out = JArray(<<JObject(<<"id", "list">>,
                                   <<JNumber(7), JArray(<<JNumber(1), Marker(3)>>)>>),
                           Marker(1)>>)

\* out is str cut to n characters: a str of more than n characters gives
\* exactly n characters, the last three of them dots; a shorter one is kept
CutTo(str, out, n) ==
    IF Len(str) > n
    THEN /\ Len(out) = n
         /\ SubSeq(out, n - 2, n) = <<".", ".", ".">>
    ELSE out = str

RECURSIVE StringsCutTo(_, _, _)
\* every string value of out is the string value of value at its place, cut
\* to n characters
StringsCutTo(value, out, n) ==
    IF value.kind = "string" THEN out.kind = "string" /\ CutTo(value.str, out.str, n)
    ELSE IF value.kind = "array" THEN
        /\ out.kind = "array"
        /\ Len(out.items) = Len(value.items)
        /\ \A k \in DOMAIN out.items : StringsCutTo(value.items[k], out.items[k], n)
    ELSE IF value.kind = "object" THEN
        /\ out.kind = "object"
        /\ \A j \in DOMAIN out.keys :
            \E k \in DOMAIN value.keys :
                /\ value.keys[k] = out.keys[j]
                /\ StringsCutTo(value.items[k], out.items[j], n)
    ELSE out = value

TruncateDone == probe.fn \in {"truncate", "truncateStringValues"} /\ probe.done

\* C23 as stated: for any string longer than maxLen and any maxLen,
\* truncate, and truncateStringValues on any string value, gives a string
\* of exactly maxLen characters that ends in "..."; a string of at most
\* maxLen characters is returned unchanged.
C23_TruncateAnyMax ==
    TruncateDone => StringsCutTo(probe.value, probe.out, probe.n)

\* C23, amended: the same for every maxLen >= 3.
C23_Truncate ==
    (TruncateDone /\ probe.n >= 3) => StringsCutTo(probe.value, probe.out, probe.n)

\* truncate cut a string of six characters to four: one character and the
\* dots
C23_Witness ==
    /\ probe.fn = "truncate"
    /\ probe.done
    /\ probe.n = 4
    /\ Len(probe.value.str) = 6
    /\ probe.out.str = <<"a", ".", ".", ".">>

\* the entries of an object that is a direct element of an array which are
\* to go: id, timestamp, and graphql with an empty object for its value
ToRemove(value, k, insideArray) ==
    /\ insideArray
    /\ \/ value.keys[k] \in {"id", "timestamp"}
       \/ /\ value.keys[k] = "graphql"
          /\ value.items[k] = EmptyJObject

RECURSIVE Cleaned(_, _, _)
\* out is value without the entries to remove and with nothing else
\* changed: an array keeps its length and its elements are cleaned as array
\* elements; an object keeps, in order, every entry that is not to go, its
\* value cleaned as the member of a container that is no array
Cleaned(value, out, insideArray) ==
    IF value.kind = "array" THEN
        /\ out.kind = "array"
        /\ Len(out.items) = Len(value.items)
        /\ \A k \in DOMAIN out.items : Cleaned(value.items[k], out.items[k], TRUE)
    ELSE IF value.kind = "object" THEN
        LET kept == {k \in DOMAIN value.keys : ~ToRemove(value, k, insideArray)}
        IN  /\ out.kind = "object"
            /\ Len(out.keys) = Cardinality(kept)
            /\ \A k \in kept :
                LET j == Cardinality({i \in kept : i <= k})
                IN  /\ out.keys[j] = value.keys[k]
                    /\ Cleaned(value.items[k], out.items[j], FALSE)
    ELSE out = value

\* C24: removeNoiseFields removes the keys id and timestamp, and a graphql
\* key whose value is an empty object, only from objects that are direct
\* elements of an array; the same keys at the top level, or in an object
\* reached from an array element through a container that is no array,
\* stay, and no other key or value is changed.
C24_RemoveNoiseFields ==
    (probe.fn = "removeNoiseFields" /\ probe.done) =>
        Cleaned(probe.value, probe.out, probe.insideArray)

RECURSIVE Plain(_)
\* the value has no key __proto__ and no graphql key with an empty array
Plain(value) ==
    /\ \A k \in DOMAIN value.keys :
        /\ value.keys[k] # "__proto__"
        /\ ~(value.keys[k] = "graphql" /\ value.items[k] = JArray(<<>>))
    /\ \A k \in DOMAIN value.items : Plain(value.items[k])

\* what the code keeps of C24: the statement holds of every value without a
\* key __proto__ and without a graphql key holding an empty array
C24_RemoveNoiseFieldsOfPlain ==
    (probe.fn = "removeNoiseFields" /\ probe.done /\ Plain(probe.value)) =>
        Cleaned(probe.value, probe.out, probe.insideArray)

(***************************************************************************)
(* colorize, called on its own.                                            *)
(***************************************************************************)
MaxLine == 3   \* atoms of a line

\* blanks, the two whole-line prefixes, an error code, words and pieces the
\* replacements look for, and an escape sequence already in the line
ColorizeAtoms ==
    {"    ", " ", "\t", "[-32601]", "[server stderr]", "ERROR", "request",
     "tools/call", "#1", "0ms", Timestamp(0), "-> CLIENT", "x", ANSI.RED}

ColorizeLines == UNION {[1..n -> ColorizeAtoms] : n \in 0..MaxLine}

ColorizeInputs ==
    {[fn |-> "colorize", line |-> line, useColor |-> useColor,
      done |-> FALSE, out |-> <<>>] :
        line \in ColorizeLines, useColor \in BOOLEAN}

ColorizeInit == InitButProbe /\ probe \in ColorizeInputs

\* colorize(line, useColor)
ColorizeCall ==
    /\ probe.fn = "colorize"
    /\ ~probe.done
    /\ probe' = [probe EXCEPT !.done = TRUE,
                              !.out = colorize(probe.line, probe.useColor)]
    /\ UNCHANGED <<fmtVars, proxyVars, tailVars, logVars>>

ColorizeNext == ColorizeCall

ColorizeSpec == ColorizeInit /\ [][ColorizeNext]_vars

ColorizeDone == probe.fn = "colorize" /\ probe.done

C26_NoColorIsIdentity ==
    (ColorizeDone /\ ~probe.useColor) => probe.out = probe.line

\* a line full of pieces colorize would color came back as it was
C26_Witness ==
    /\ ColorizeDone
    /\ ~probe.useColor
    /\ probe.line = <<"    ", "ERROR", "#1">>
    /\ probe.out = probe.line

(***************************************************************************)
(* One line buffer, fed a character stream in chunks of any sizes.  The    *)
(* callback records the lines it is given.                                 *)
(***************************************************************************)
MaxFeed == 5   \* characters of a fed stream

FeedAtoms == {"a", "b", " ", NL}
FeedStreams == UNION {[1..n -> FeedAtoms] : n \in 0..MaxFeed}

\* fed: the characters of the stream fed so far; buffer: the closure's
\* variable; lines: what onLine was called with
FeedInputs ==
    {[fn |-> "createLineBuffer", stream |-> stream, fed |-> 0,
      buffer |-> <<>>, lines |-> <<>>] : stream \in FeedStreams}

FeedInit == InitButProbe /\ probe \in FeedInputs

\* the function createLineBuffer returned is called with the next n
\* characters of the stream
Feed(n) ==
    /\ probe.fn = "createLineBuffer"
    /\ probe.fed + n <= Len(probe.stream)
    /\ LET chunk == SubSeq(probe.stream, probe.fed + 1, probe.fed + n)
           r == LineBuffer(probe.buffer, chunk)
       IN  probe' = [probe EXCEPT !.fed = probe.fed + n,
                                  !.buffer = r.buffer,
                                  !.lines = probe.lines \o r.lines]
    /\ UNCHANGED <<fmtVars, proxyVars, tailVars, logVars>>

FeedNext == \E n \in 0..MaxFeed : Feed(n)

FeedSpec == FeedInit /\ [][FeedNext]_vars

\* the positions of the newlines of a text
NewlinePositions(text) ==
    SelectSeq([i \in 1..Len(text) |-> i], LAMBDA i : text[i] = NL)

\* the lines of a text that a newline ends, without their newlines
TerminatedLines(text) ==
    LET at == NewlinePositions(text)
    IN  [k \in 1..Len(at) |->
            SubSeq(text, IF k = 1 THEN 1 ELSE at[k - 1] + 1, at[k] - 1)]

\* what follows the last newline of a text
UnterminatedTail(text) ==
    LET at == NewlinePositions(text)
    IN  SubSeq(text, IF at = <<>> THEN 1 ELSE at[Len(at)] + 1, Len(text))

IsBlankLine(line) == \A i \in DOMAIN line : line[i] \in Whitespace

\* C27: line reassembly does not depend on the chunking: however the stream
\* was split into the chunks fed so far, the callback has received the
\* newline-terminated lines of the fed part that are not empty or
\* whitespace-only, in order and each once, and the buffer holds the
\* unterminated tail, which is held back until its newline arrives.
C27_ChunkingIndependent ==
    probe.fn = "createLineBuffer" =>
        LET text == SubSeq(probe.stream, 1, probe.fed)
        IN  /\ probe.lines = SelectSeq(TerminatedLines(text),
                                       LAMBDA line : ~IsBlankLine(line))
            /\ probe.buffer = UnterminatedTail(text)

\* the whole of "a\n \nab" was fed: one line was handed over, the blank one
\* was skipped and "ab" is held back
C27_Witness ==
    /\ probe.fn = "createLineBuffer"
    /\ probe.stream = <<"a", NL, " ", NL, "b">>
    /\ probe.fed = 5
    /\ probe.lines = <<<<"a">>>>
    /\ probe.buffer = <<"b">>

(***************************************************************************)
(* One target, named with --file, streamed from a file that only grows.    *)
(* The Logger appends whole characters; the bytes of one character may     *)
(* reach the reader in two reads when readBuf is full before the second.   *)
(***************************************************************************)
MaxBytes == 4   \* bytes the streamed file holds

StreamChunks == {<<"ERROR">>, <<NL>>, <<"C3", "A9">>}

StreamNext ==
    \/ CreateFile("a.log")
    \/ \E chunk \in StreamChunks : AppendToFile("a.log", chunk, MaxBytes)
    \/ \E color \in BOOLEAN : Watch("a.log", color)
    \/ \E k \in DOMAIN streams : PollTick(k, FALSE)

StreamSpec == Init /\ [][StreamNext]_vars

\* the one stream of the session is reading its file
Streaming == streams # <<>> /\ streams[1].pollInterval

\* offset is at most the size of the file
OffsetInFile == streams[1].offset <= Len(files[streams[1].filePath].content)

\* the display holds whole lines only: no line was written before its
\* newline was read
OnlyWholeLines == WholeLines(Shown(tailStdout, 1))

\* the lines on the display, each with its newline, followed by the carried
\* partial line are the content of the file in [0, offset)
ShowsContentRead ==
    Shown(tailStdout, 1) \o streams[1].partial
        = ToStringUtf8(SubSeq(files[streams[1].filePath].content, 1, streams[1].offset))

\* C28: while one target is streamed from a file that only grows, after the
\* initial read and after every poll tick, offset has not decreased and is
\* at most the size of the file, the lines written to the display, each
\* followed by a newline, concatenated with the carried partial line are
\* exactly the content of the file in [0, offset), and no line is written
\* before its newline was read.
C28_StreamedExactly ==
    [][Streaming' =>
            /\ OffsetInFile'
            /\ Streaming => streams'[1].offset >= streams[1].offset
            /\ OnlyWholeLines'
            /\ ShowsContentRead']_vars

\* what the code keeps of C28: everything but the equality of the display
\* and the content, which holds as long as no character was read in two
\* parts
C28_OffsetAndWholeLines ==
    [][Streaming' =>
            /\ OffsetInFile'
            /\ Streaming => streams'[1].offset >= streams[1].offset
            /\ OnlyWholeLines'
            /\ ("U+FFFD" \notin {tailStdout'[i] : i \in DOMAIN tailStdout'}
                    /\ "U+FFFD" \notin {streams'[1].partial[i] :
                                            i \in DOMAIN streams'[1].partial})
                => ShowsContentRead']_vars

(***************************************************************************)
(* The pending map, step by step.                                          *)
(***************************************************************************)
\* the line of the formatMessage call of this step
SteppedLine == calls'[Len(calls')].json

\* a notification: method present, id absent
IsNotificationLine(json) ==
    /\ IsObject(json)
    /\ JSONParse(json).value.hasMethod
    /\ ~JSONParse(json).value.hasId

\* the unparsable shape: neither method nor id
IsShapeLine(json) ==
    /\ IsObject(json)
    /\ ~JSONParse(json).value.hasMethod
    /\ ~JSONParse(json).value.hasId

\* this step gave id i an entry, or another one
EntrySet(i) ==
    /\ i \in DOMAIN pendingRequests'
    /\ i \notin DOMAIN pendingRequests \/ pendingRequests'[i] # pendingRequests[i]

\* this step took the entry of id i away
EntryGone(i) == i \in DOMAIN pendingRequests /\ i \notin DOMAIN pendingRequests'

\* C29: only a request line adds or overwrites an entry of the pending map,
\* and only for its own id; only a response line (id present, method absent)
\* removes an entry, and only for its own id; a notification, a line of the
\* unparsable shape and a line of invalid JSON leave the map as it was; and
\* a step in which no line is processed, such as the passing of time,
\* removes nothing, so an entry without a response stays.
C29_PendingMapFrame ==
    [][IF calls' = calls THEN pendingRequests' = pendingRequests
       ELSE /\ \A i \in Ids :
                EntrySet(i) => IsRequestLine(SteppedLine) /\ CarriesId(SteppedLine, i)
            /\ \A i \in Ids :
                EntryGone(i) => IsResponseLine(SteppedLine) /\ CarriesId(SteppedLine, i)
            /\ ( \/ IsNotificationLine(SteppedLine)
                 \/ IsShapeLine(SteppedLine)
                 \/ InvalidJson(SteppedLine) )
                    => pendingRequests' = pendingRequests]_vars

\* what the code keeps of C29: the same, but an entry is also removed by a
\* line that carries its id and a method that is the empty string
C29_FrameButEmptyMethod ==
    [][IF calls' = calls THEN pendingRequests' = pendingRequests
       ELSE /\ \A i \in Ids :
                EntrySet(i) => IsRequestLine(SteppedLine) /\ CarriesId(SteppedLine, i)
            /\ \A i \in Ids :
                EntryGone(i) =>
                    /\ IsResponseLine(SteppedLine) \/ SteppedLine = <<EmptyMethod1>>
                    /\ CarriesId(SteppedLine, i)
            /\ ( \/ IsNotificationLine(SteppedLine)
                 \/ IsShapeLine(SteppedLine)
                 \/ InvalidJson(SteppedLine) )
                    => pendingRequests' = pendingRequests]_vars

(***************************************************************************)
(* The switch step of the tail.                                            *)
(***************************************************************************)
\* what the switch check resolves in this state
Newest == findLatestLog(files, Listing(TRUE, dirEntries))

\* what this step appended to the display
Appended == SubSeq(tailStdout', Len(tailStdout) + 1, Len(tailStdout'))

\* the carried partial line of stream k as the switch writes it
Flushed(k) ==
    IF streams[k].partial # <<>>
    THEN colorize(streams[k].partial, streams[k].useColor) \o <<NL>> ELSE <<>>

\* the banner line of a stream of file name
BannerLine(name, useColor) ==
    IF useColor THEN <<ANSI.DIM, Banner(name), ANSI.RESET, NL>> ELSE <<Banner(name), NL>>

\* a text begins with another
StartsWith(text, prefix) ==
    Len(text) >= Len(prefix) /\ SubSeq(text, 1, Len(prefix)) = prefix

GoneStep(k) ==
    /\ streams[k].closedBy = Null
    /\ streams'[k].closedBy = "gone"

\* what streamFile writes for a file it can open: the banner line and the
\* whole lines the file holds
StreamStart(name, useColor) ==
    BannerLine(name, useColor)
        \o ReadLines(ToStringUtf8(files[name].content), useColor).out

\* the step started a stream of the file the directory resolves to, with
\* auto-switch, and nothing of the removed file is on the display
StartsReplacement(k) ==
    /\ Newest # Null
    /\ Len(streams') = Len(streams) + 1
    /\ streams'[Len(streams')].filePath = Newest
    /\ streams'[Len(streams')].auto
    /\ streams'[Len(streams')].fdOpen
    /\ streams'[Len(streams')].pollInterval
    /\ streams'[Len(streams')].switchCheckInterval
    /\ ~waitInterval'
    /\ exitCode' = Null
    /\ Appended = <<NL>> \o StreamStart(Newest, streams[k].useColor)

\* the step announced the wait state and set the directory poll
EntersWait ==
    /\ Newest = Null
    /\ Len(streams') = Len(streams)
    /\ waitInterval'
    /\ exitCode' = Null
    /\ Appended = <<NL, RemovedMessage, NL>>

\* the replacement was removed between the directory listing and openSync
\* and the process ended with status 1
OpenFailed(k) ==
    /\ Newest # Null
    /\ Len(streams') = Len(streams)
    /\ exitCode' = "1"
    /\ Appended = <<NL>> \o BannerLine(Newest, streams[k].useColor)

\* stream k, once closed for a gone file, is left as it is, its partial line
\* included, and no timer of it runs
GoneForGood(k) ==
    streams[k].closedBy = "gone" =>
        /\ ~SwitchCheckTick(k)
        /\ ~(\E statFails \in BOOLEAN : PollTick(k, statFails))
        /\ streams'[k] = streams[k]

\* C31: when the stat of the content poll fails, both timers of the target
\* are stopped and the handle is closed; with auto-switch the engine
\* resolves the directory again and either starts to stream the replacement
\* or enters the wait state that polls the directory; the carried partial
\* line of the removed file is never written to the display.
C31_FileGoneStep ==
    [][\A k \in DOMAIN streams :
        /\ PollTick(k, TRUE) => GoneStep(k)
        /\ GoneStep(k) =>
            /\ ~streams'[k].pollInterval
            /\ ~streams'[k].switchCheckInterval
            /\ ~streams'[k].fdOpen
            /\ streams[k].auto => (StartsReplacement(k) \/ EntersWait)
        /\ GoneForGood(k)]_vars

\* what the code keeps of C31: the same, but the step may also end the
\* process when the replacement cannot be opened
C31_FileGoneStepOrExit ==
    [][\A k \in DOMAIN streams :
        /\ PollTick(k, TRUE) => GoneStep(k)
        /\ GoneStep(k) =>
            /\ ~streams'[k].pollInterval
            /\ ~streams'[k].switchCheckInterval
            /\ ~streams'[k].fdOpen
            /\ streams[k].auto =>
                (StartsReplacement(k) \/ EntersWait \/ OpenFailed(k))
            /\ ~streams[k].auto => Appended = <<>> /\ ~waitInterval'
        /\ GoneForGood(k)]_vars

\* a target that carried the partial line "ERROR" was found gone, and the
\* engine streams a replacement or waits
C31_Reached ==
    \E k \in DOMAIN streams :
        /\ streams[k].closedBy = "gone"
        /\ streams[k].auto
        /\ streams[k].partial = <<"ERROR">>
        /\ exitCode = Null
        /\ waitInterval \/ (k < Len(streams) /\ streams[k + 1].fdOpen)

(***************************************************************************)
(* The lines of the log files on the display of one tail session.          *)
(***************************************************************************)
\* the positions of file name at which a line ends
LineEnds(name) == NewlinePositions(files[name].content)

\* stream k has read, and so written, the i-th line of its file
Wrote(k, i) == streams[k].offset >= LineEnds(streams[k].filePath)[i]

\* the streams of the session that wrote the i-th line of file name
Writers(name, i) ==
    {k \in DOMAIN streams : streams[k].filePath = name /\ Wrote(k, i)}

\* C32: within one tail session no line of any log file is written to the
\* display more than once, whatever the appends, the changes of
\* modification time and the switches among the files of the directory.
C32_NoLineTwice ==
    \A name \in LogNames :
        \A i \in DOMAIN LineEnds(name) : Cardinality(Writers(name, i)) <= 1

\* the whole lines among the first n bytes of file name
WholeLinesRead(name, n) ==
    LET text == SubSeq(files[name].content, 1, n)
    IN  SubSeq(text, 1, Len(text) - Len(UnterminatedTail(text)))

\* what the engine writes after the lines of a stream and before the next
\* banner: nothing, the blank line of a switch or of a recovery, with the
\* partial line the stream carried before it or the removed-message after it
Closings(k) ==
    LET read == SubSeq(files[streams[k].filePath].content, 1, streams[k].offset)
    IN  {<<>>, <<NL>>, UnterminatedTail(read) \o <<NL, NL>>,
         <<NL, RemovedMessage, NL>>, <<NL, RemovedMessage, NL, NL>>}

\* what the code keeps of C32: one stream writes every line it has read
\* once, in the order of the file
C32_OncePerStream ==
    \A k \in DOMAIN streams :
        LET name == streams[k].filePath
            whole == WholeLinesRead(name, streams[k].offset)
            shown == Shown(tailStdout, k)
        IN  streams[k].offset <= Len(files[name].content) =>
                /\ StartsWith(shown, whole)
                /\ SubSeq(shown, Len(whole) + 1, Len(shown)) \in Closings(k)

\* the display shows the line "ERROR" of one file under two banners
C32_ShownTwice ==
    \E j, k \in DOMAIN streams :
        /\ j < k
        /\ streams[j].filePath = streams[k].filePath
        /\ StartsWith(Shown(tailStdout, j), <<"ERROR", NL>>)
        /\ StartsWith(Shown(tailStdout, k), <<"ERROR", NL>>)

(***************************************************************************)
(* Catching up with a file that has stopped growing.  The content poll is  *)
(* the callback of setInterval(..., POLL_MS): as long as its timer is set   *)
(* it runs again and again, so a poll that has bytes to read is taken at   *)
(* last.  The file holds at most MaxBytes bytes, is never removed and has   *)
(* no rival: it stops growing in every behaviour.  The session is one      *)
(* without colors.                                                         *)
(***************************************************************************)
StreamLiveNext ==
    \/ CreateFile("a.log")
    \/ \E chunk \in StreamChunks : AppendToFile("a.log", chunk, MaxBytes)
    \/ Watch("a.log", FALSE)
    \/ \E k \in DOMAIN streams : PollTick(k, FALSE)

StreamLiveSpec ==
    /\ Init
    /\ [][StreamLiveNext]_vars
    /\ WF_vars(\E k \in DOMAIN streams : PollTick(k, FALSE))

\* the text of the streamed file
StreamedText == ToStringUtf8(files[streams[1].filePath].content)

\* offset has reached the size of the file
OffsetAtSize == streams[1].offset = Len(files[streams[1].filePath].content)

\* the display holds the newline-terminated lines of the file, each once
EveryLineShown ==
    Shown(tailStdout, 1)
        = SubSeq(StreamedText, 1, Len(StreamedText) - Len(UnterminatedTail(StreamedText)))

\* the display holds as many lines as the file has newlines
EveryNewlineShown ==
    Len(NewlinePositions(Shown(tailStdout, 1)))
        = Len(NewlinePositions(files[streams[1].filePath].content))

\* C33: when the target stops growing and is neither replaced nor removed,
\* then under fair scheduling of the poll timer the engine finally has its
\* offset at the size of the file and has written every newline-terminated
\* line of the file, also when the file grew by more than one poll reads.
C33_CatchUp == <>[](Streaming => (OffsetAtSize /\ EveryLineShown))

\* what the code keeps of C33: the offset reaches the size of the file and
\* a line is on the display for every newline of the file; the lines are
\* those of the file when no character was read in two parts
C33_CatchUpAsRead ==
    <>[](Streaming =>
            /\ OffsetAtSize
            /\ EveryNewlineShown
            /\ "U+FFFD" \notin {tailStdout[i] : i \in DOMAIN tailStdout}
                    => EveryLineShown)

\* a file that grew by more than one poll reads has been caught up with
C33_CaughtUp ==
    /\ Streaming
    /\ OffsetAtSize
    /\ Len(files[streams[1].filePath].content) = MaxBytes
    /\ Shown(tailStdout, 1) = <<"ERROR", NL, "ERROR", NL>>

(***************************************************************************)
(* Leaving the wait state.  The directory poll of watch and of             *)
(* handleFileGone is the callback of setInterval(..., 1000): as long as    *)
(* its timer is set it runs again and again.  The session is one of        *)
(* `ilya watch` without a file argument and without colors; no signal is   *)
(* sent.                                                                   *)
(***************************************************************************)
WaitLiveNext ==
    \/ Watch(Null, FALSE)
    \/ WaitTick
    \/ \E k \in DOMAIN streams, statFails \in BOOLEAN : PollTick(k, statFails)
    \/ \E k \in DOMAIN streams : SwitchCheckTick(k)
    \/ \E name \in LogNames : CreateFile(name)
    \/ \E name \in LogNames : AppendToFile(name, <<"ERROR", NL>>, MaxFile)
    \/ \E name \in LogNames : RemoveFile(name)
    \/ ClockTick

WaitLiveSpec == Init /\ [][WaitLiveNext]_vars /\ WF_vars(WaitTick)

\* the file is in the directory
Exists(name) == files[name].present

\* the engine streams a file with auto-switch and the wait timer is stopped
StreamsWithAutoSwitch ==
    /\ ~waitInterval
    /\ streams # <<>>
    /\ streams[Len(streams)].fdOpen
    /\ streams[Len(streams)].pollInterval
    /\ streams[Len(streams)].auto
    /\ streams[Len(streams)].switchCheckInterval

\* the step in which the directory poll finds a file
FoundStep == waitInterval /\ ~waitInterval'

\* the directory poll that finds a file, which stays, stops the wait timer
\* and starts one stream, of that file, with auto-switch
OneStreamStarted ==
    /\ Len(streams') = Len(streams) + 1
    /\ SubSeq(streams', 1, Len(streams)) = streams
    /\ streams'[Len(streams')].filePath = Newest
    /\ streams'[Len(streams')].auto
    /\ StreamsWithAutoSwitch'

\* C34: without a .log file, at startup or after the target was removed
\* with auto-switch, the engine polls the directory; once a .log file exists
\* and stays, under fair scheduling of the wait timer the engine finally
\* streams with auto-switch, the wait timer is stopped, and exactly one
\* stream was started.
C34_WaitEnds ==
    /\ [][(FoundStep /\ files'[Newest].present) => OneStreamStarted]_vars
    /\ [][(Newest = Null /\ (Watch(Null, FALSE)
                                \/ \E k \in DOMAIN streams : GoneStep(k)))
            => waitInterval']_vars
    /\ \A name \in LogNames :
            (waitInterval /\ Exists(name)) ~> (StreamsWithAutoSwitch \/ ~Exists(name))

\* what the code keeps of C34: the same, but the directory poll ends the
\* process, whatever other files exist and stay, when the file it found
\* cannot be opened
C34_WaitEndsOrExit ==
    /\ [][(FoundStep /\ files'[Newest].present) => OneStreamStarted]_vars
    /\ [][(Newest = Null /\ (Watch(Null, FALSE)
                                \/ \E k \in DOMAIN streams : GoneStep(k)))
            => waitInterval']_vars
    /\ \A name \in LogNames :
            (waitInterval /\ Exists(name))
                ~> (StreamsWithAutoSwitch \/ ~Exists(name) \/ exitCode = "1")

\* the engine waited after its target was removed and now streams the file
\* that appeared
C34_Streams ==
    /\ StreamsWithAutoSwitch
    /\ Len(streams) = 2
    /\ streams[1].closedBy = "gone"
    /\ RemovedMessage \in {tailStdout[i] : i \in DOMAIN tailStdout}

(***************************************************************************)
(* A proxy session that relays two lines in each direction: valid and      *)
(* invalid JSON from the client and from the child, the child's stderr,    *)
(* and the child's exit.  What the child writes to its stdout stays in the *)
(* pipe until a data event delivers it, in pieces of any length.           *)
(***************************************************************************)
MaxRelay == 4   \* atoms one stream carries in a relay session

RelayClientChunks == {<<ReqToolsCall1, NL>>, <<NotJson, NL>>}
RelayServerChunks == {<<ResText1, NL>>, <<NotJson, NL>>}
RelayStderrChunks == {<<"warn", NL>>}

\* the child writes to its stdout
ChildWrites(chunk) ==
    /\ ~Crashed
    /\ procExit = Null
    /\ Len(childStdout) + Len(chunk) <= MaxRelay
    /\ childStdout' = childStdout \o chunk
    /\ UNCHANGED <<fmtVars, clientBuffer, serverBuffer, stdinData, childStdoutData,
                   childStdin, procStdout, childStderrData, killTimer, procExit,
                   tailVars, probe, logVars>>

\* what the child wrote and no data event has delivered yet
PendingStdout == SubSeq(childStdout, Len(childStdoutData) + 1, Len(childStdout))

RelayNext ==
    \/ \E chunk \in RelayClientChunks : StdinData(chunk, MaxRelay)
    \/ \E chunk \in RelayServerChunks : ChildWrites(chunk)
    \/ \E n \in 1..Len(PendingStdout) :
          ChildStdoutData(SubSeq(PendingStdout, 1, n), MaxRelay)
    \/ \E chunk \in RelayStderrChunks : ChildStderrData(chunk)
    \/ \E e \in ExitEvents : ChildExit(e.code, e.signal)

RelaySpec == Init /\ [][RelayNext]_vars

\* the lines formatMessage was called with for a direction, in call order
Logged(direction) ==
    LET at == SelectSeq([k \in 1..Len(calls) |-> k],
                        LAMBDA k : calls[k].direction = direction)
    IN  [i \in 1..Len(at) |-> calls[at[i]].json]

\* the lines the line buffer of a stream has handed to its callback
Delivered(data) == LineBuffer(<<>>, data).lines

\* the lines written to an endpoint, each with its newline
Forwarded(out) == TerminatedLines(out)

\* C35: each line a direction's line buffer delivers is given to
\* formatMessage once and then written once, unchanged, to the opposite
\* endpoint, whatever its classification (invalid JSON included); a line is
\* never forwarded in a step that did not log it, and per direction the
\* forwarded lines are in arrival order.
C35_LogThenForward ==
    /\ [](/\ Logged("client") = Delivered(stdinData)
          /\ Forwarded(childStdin) = Logged("client")
          /\ UnterminatedTail(childStdin) = <<>>
          /\ Logged("server") = Delivered(childStdoutData)
          /\ Forwarded(procStdout) = Logged("server")
          /\ UnterminatedTail(procStdout) = <<>>
          /\ \A k \in DOMAIN calls : ~calls[k].raised)
    /\ [][/\ Len(Forwarded(childStdin')) - Len(Forwarded(childStdin))
               = Len(Logged("client")') - Len(Logged("client"))
          /\ Len(Forwarded(procStdout')) - Len(Forwarded(procStdout))
               = Len(Logged("server")') - Len(Logged("server"))]_vars

\* the client sent invalid JSON and then a tools/call request, the child
\* answered with a result and then invalid JSON: all four lines were logged
\* and forwarded, in this order
C35_Witness ==
    /\ Forwarded(childStdin) = <<<<NotJson>>, <<ReqToolsCall1>>>>
    /\ Forwarded(procStdout) = <<<<ResText1>>, <<NotJson>>>>
    /\ Len(calls) = 4
    /\ \E k \in DOMAIN calls : calls[k].caught

\* C36: when the proxy process exits on the child's exit event, every
\* complete line the child wrote to its stdout has been logged and forwarded
\* to the client, however the exit event and the data events were ordered.
C36_OutputDrainedBeforeExit ==
    procExit # Null =>
        /\ Logged("server") = Delivered(childStdout)
        /\ Forwarded(procStdout) = Delivered(childStdout)

\* what the code gives: the lines of the data events handled before the exit
\* event are logged and forwarded, and nothing is after process.exit
C36_HandledBeforeExit ==
    /\ [](procExit # Null =>
            /\ Logged("server") = Delivered(childStdoutData)
            /\ Forwarded(procStdout) = Delivered(childStdoutData))
    /\ [][procExit # Null => UNCHANGED <<written, calls, procStdout>>]_vars

\* the proxy has exited with status 0 while the answer the child wrote is
\* still in the pipe
C36_AnswerLost ==
    /\ procExit = "0"
    /\ childStdout = <<ResText1, NL>>
    /\ childStdoutData = <<>>
    /\ procStdout = <<>>

\* the positions of written that a formatMessage call filled
Segment(k) == calls[k].first .. (calls[k].first + calls[k].count - 1)

\* C37: the records of one input line are contiguous in the sink, whatever
\* the interleaving of client, server and stderr events: the records a
\* formatMessage call wrote stand next to each other in the order the call
\* wrote them, beginning with a header, and every detail record belongs to
\* the header of its own call; no record of another line and no stderr
\* passthrough or status record stands between them.
C37_RecordsContiguous ==
    /\ \A k \in CallIds :
          LET recs == RecordsOf(k)
          IN  /\ calls[k].first + calls[k].count - 1 <= Len(written)
              /\ recs = formatMessage(calls[k].json, calls[k].direction,
                                      calls[k].before, colors, calls[k].at).written
              /\ calls[k].count >= 1
              /\ IsHeader(recs[1])
    /\ \A j \in CallIds, k \in CallIds : j # k => Segment(j) \cap Segment(k) = {}
    /\ \A p \in DOMAIN written :
          (\A k \in CallIds : p \notin Segment(k)) => IsHeader(written[p])

\* a tools/call request and its result, each with detail records, were
\* logged around a stderr passthrough record and before the status record of
\* the child's exit
C37_Witness ==
    \E j \in CallIds, k \in CallIds, p \in DOMAIN written :
        /\ calls[j].direction = "client" /\ calls[j].count >= 2
        /\ calls[k].direction = "server" /\ calls[k].count >= 3
        /\ calls[j].first + calls[j].count = p
        /\ calls[k].first = p + 1
        /\ written[p].plain = <<"[server stderr]", "warn">>
        /\ procExit # Null

(***************************************************************************)
(* formatResult on tools/call results whose content array holds up to      *)
(* MaxContent blocks of every kind: plain and JSON text, images with and   *)
(* without data, a resource, a block of another type, a text block without *)
(* a string text, and null.                                                *)
(***************************************************************************)
MaxContent == 3   \* blocks in a content array

ContentBlocks ==
    {Block("text", PlainText(<<"hi", "there">>), <<>>),
     Block("text", JsonText("object", <<"{\"a\":1}">>, <<"{", "  \"a\": 1", "}">>), <<>>),
     ImageBlock("image/png", 4096),
     ImageBlock("", 0),
     ResourceBlock("file:///a.txt"),
     Block("audio", NoText, <<"{\"type\":\"audio\"}">>),
     Block("text", NoText, <<>>),
     NullBlock}

ContentInputs ==
    {ResultProbe("formatResult", "tools/call",
                 [EmptyObject EXCEPT !.content = Array(content), !.isError = isError],
                 NoText) :
        content \in UNION {[1..n -> ContentBlocks] : n \in 0..MaxContent},
        isError \in BOOLEAN}

ContentInit == InitButProbe /\ probe \in ContentInputs

ContentNext == FormatResultCall

ContentSpec == ContentInit /\ [][ContentNext]_vars

\* the content array of the probed result
ProbedContent == probe.result.content.items

\* the records of the blocks of a content array, block after block
RECURSIVE BlockRecords(_, _)
BlockRecords(content, c) ==
    IF content = <<>> THEN <<>>
    ELSE FormatBlock(Head(content), c).written \o BlockRecords(Tail(content), c)

IsErrorRecord(rec) == rec.plain = <<"    ", "(isError: true)">>

\* a finished call of formatResult on a tools/call result with a content array
ContentCallDone ==
    /\ probe.fn = "formatResult"
    /\ probe.done
    /\ probe.method = "tools/call"
    /\ probe.result.content.isArray

\* the records are those of the blocks in content order, a block that is no
\* text block gives one record, and the "(isError: true)" record is written
\* once, last, exactly when isError is truthy
BlocksThenErrorMark ==
    LET recs == probe.out.written
        marks == {p \in DOMAIN recs : IsErrorRecord(recs[p])}
    IN  /\ ~probe.out.threw
        /\ recs = BlockRecords(ProbedContent, colors)
                    \o (IF probe.result.isError
                        THEN <<Rec(<<"    ", colors.RED, "(isError: true)", colors.RESET>>,
                                   <<"    ", "(isError: true)">>)>>
                        ELSE <<>>)
        /\ \A k \in DOMAIN ProbedContent :
              ProbedContent[k].type # "text"
                  => Len(FormatBlock(ProbedContent[k], colors).written) = 1
        /\ marks = IF probe.result.isError THEN {Len(recs)} ELSE {}

\* C38: for a tools/call result with a content array, formatResult emits the
\* records of the blocks in content order; an image, resource or
\* other-typed block yields exactly one record; and when isError is truthy
\* the "(isError: true)" record is emitted exactly once, after the records
\* of all content blocks.
C38_BlocksInOrder == ContentCallDone => BlocksThenErrorMark

\* a block formatResult can work on: an object, and with a string text when
\* its type is "text"
Formattable(block) == ~block.isNull /\ (block.type = "text" => block.text.isString)

\* what the code gives: a content array of formattable blocks is written
\* block after block and then the error mark; otherwise the call throws at
\* the first block that is not formattable, after the records of the blocks
\* before it, and writes no error mark
C38_UpToTheThrow ==
    ContentCallDone =>
        IF \A k \in DOMAIN ProbedContent : Formattable(ProbedContent[k])
        THEN BlocksThenErrorMark
        ELSE LET k == CHOOSE k \in DOMAIN ProbedContent :
                        /\ ~Formattable(ProbedContent[k])
                        /\ \A j \in 1..(k - 1) : Formattable(ProbedContent[j])
             IN  /\ probe.out.threw
                 /\ probe.out.written = BlockRecords(SubSeq(ProbedContent, 1, k - 1), colors)

\* an error result with an image and a text block without text: the image
\* record was written, the call threw, and the error mark is missing
C38_ErrorMarkLost ==
    /\ ContentCallDone
    /\ probe.result.isError
    /\ ProbedContent = <<ImageBlock("image/png", 4096), Block("text", NoText, <<>>)>>
    /\ probe.out.threw
    /\ Len(probe.out.written) = 1
    /\ ~IsErrorRecord(probe.out.written[1])

\* an error result with a text, an image and a resource block: four block
\* records in content order and then the error mark
C38_AllWritten ==
    /\ ContentCallDone
    /\ probe.result.isError
    /\ ProbedContent = <<Block("text", PlainText(<<"hi", "there">>), <<>>),
                         ImageBlock("image/png", 4096), ResourceBlock("file:///a.txt")>>
    /\ Len(probe.out.written) = 5
    /\ IsErrorRecord(probe.out.written[5])

\* the characters of a rendering, its atoms put together
RECURSIVE TextOf(_)
TextOf(atoms) ==
    IF atoms = <<>> THEN ""
    ELSE IF Len(atoms) = 1 THEN atoms[1]
    ELSE LET half == Len(atoms) \div 2
         IN  TextOf(SubSeq(atoms, 1, half)) \o TextOf(SubSeq(atoms, half + 1, Len(atoms)))

\* a record whose styled rendering, its style codes removed, is its plain one
SameText(rec) == TextOf(Strip(rec.colored)) = TextOf(rec.plain)

\* C39: every record formatMessage or formatResult passes to the sink has a
\* styled and a plain rendering with identical text: the styled rendering
\* without its style codes is exactly the plain one, for every message class
\* and every result shape.
C39_StyledEqualsPlain ==
    /\ \A p \in DOMAIN written : SameText(written[p])
    /\ (probe.fn = "formatResult" /\ probe.done) =>
            \A p \in DOMAIN probe.out.written : SameText(probe.out.written[p])

\* a session in colors logged a tools/call request with its arguments, an
\* error response with its detail, and a line that is not JSON
C39_Witness ==
    /\ colors = ANSI
    /\ \E j \in CallIds, k \in CallIds, l \in CallIds :
          /\ calls[j].json = <<ReqToolsCall1>> /\ calls[j].count = 4
          /\ calls[k].json = <<ErrNotFound1>> /\ calls[k].count = 2
          /\ calls[l].caught /\ calls[l].count = 1
          /\ \A p \in Segment(j) \cup Segment(k) \cup Segment(l) :
                Len(written[p].colored) > Len(written[p].plain)

====
